---- MODULE Spec2Model ----
(***************************************************************************)
(* A model of Voco's scripts:                                              *)
(*   scripts/test_bert_scoring.py    contextual (masked-LM) scoring and    *)
(*                                   the accept/reject verdict             *)
(*   scripts/prepare_pinyin_data.py  the offline build of the phonetic     *)
(*                                   index and the frequency stores        *)
(*                                                                         *)
(* Characters are written by their romanisation ("yin" is U+9280, "ying"   *)
(* is U+87A2, "mu" is U+5E55, ...).  Scores and logits are fixed-point     *)
(* numbers in tenths: the source's 2.0 is 20 and its 2.5 is 25.            *)
(***************************************************************************)
EXTENDS Integers, Sequences, FiniteSets, TLC

VARIABLES
    \* test_bert_scoring.py
    test,        \* the arguments of one run_test call and the oracle's answers
    outcome,     \* what that run_test call computed and printed
    mainIdx,     \* main(): index of the next hard-coded run_test call
    mainLog,     \* main(): the verdicts printed so far, in order
    mainState,   \* main(): "running", "finished" or "raised" ("off": not run)
    freqs,       \* comparison table: [orig_freq, cand_freq] of the row
    tableRow,    \* comparison table: the row printed for test and freqs
    \* prepare_pinyin_data.py: its environment
    pypinyin,    \* pinyin(char, style=TONE3, heteronym=True)[0] per code point
    upstream,    \* the lines of dict.txt.big at JIEBA_DICT_URL
    network,     \* "up", "down" (no connection) or "cut" (breaks part-way)
    cache,       \* CACHE_DIR/dict.txt.big: [exists, lines]
    files,       \* the four files of OUTPUT_DIR: [exists, content] each
    \* prepare_pinyin_data.py: one run of main()
    buildState,  \* the next step of main(), "done" or "failed" ("off": not run)
    runs,        \* runs of main() started so far
    written,     \* the output files this run has written
    char_pinyin, pinyin_chars, word_freq, bigram_freq,  \* main()'s locals
    \* validate_suspicious_words.py
    report,      \* main(): what it loaded and counted ("off": not run)
    \* the correction engine's suspicious-span detector
    detector,    \* the tokens and the suspicious spans of each row
    \* analyze_results.py
    cerInput,    \* char_error_rate: [ref, hyp]
    cerResult,   \* char_error_rate: what it returned ("idle": not called)
    \* run_eval.py
    resultsFile, \* args.output: [exists, content], content a list of results
    eval,        \* main(): its position and its locals ("off": not run)
    runnerCalls  \* the calls of runners so far: [model, pending, results]

scoreVars == <<test, outcome, mainIdx, mainLog, mainState, freqs, tableRow>>

buildVars ==
    <<pypinyin, upstream, network, cache, files, buildState, runs, written,
      char_pinyin, pinyin_chars, word_freq, bigram_freq>>

toolVars ==
    <<report, detector, cerInput, cerResult, resultsFile, eval, runnerCalls>>

vars == <<scoreVars, buildVars, toolVars>>

NoFile == [exists |-> FALSE, content |-> <<>>]

NoFiles ==
    [char_pinyin |-> NoFile, pinyin_chars |-> NoFile, word_freq |-> NoFile,
     bigram_freq |-> NoFile]

\* prepare_pinyin_data.py is not run.
BuildOff ==
    /\ pypinyin = <<>> /\ upstream = <<>> /\ network = "up"
    /\ cache = NoFile /\ files = NoFiles
    /\ buildState = "off" /\ runs = 0 /\ written = {}
    /\ char_pinyin = <<>> /\ pinyin_chars = <<>>
    /\ word_freq = <<>> /\ bigram_freq = <<>>

NoFreqs == [orig_freq |-> 0, cand_freq |-> 0, given |-> FALSE]

NoRow ==
    [state |-> "idle", freq_score |-> [num |-> 1, den |-> 1], bert_score |-> 0,
     freq_verdict |-> "none", bert_verdict |-> "none"]

\* The comparison table of test_bert_scoring.py is not printed.
TableOff == freqs = NoFreqs /\ tableRow = NoRow

NoReport ==
    [state |-> "off", freqs |-> <<>>, low_freq_words |-> <<>>, rows |-> <<>>,
     found_in_transcriptions |-> <<>>, records_with_hits |-> 0]

NoDetector == [state |-> "off", tokens |-> <<>>, suspicious |-> <<>>]

NoCerInput == [ref |-> <<>>, hyp |-> <<>>, given |-> FALSE]

NoCerResult ==
    [state |-> "idle", ref_chars |-> <<>>, hyp_chars |-> <<>>,
     rate |-> [num |-> 0, den |-> 1]]

NoEval ==
    [state |-> "off", test_cases |-> <<>>, models_to_run |-> <<>>,
     idx |-> 0, existing_results |-> <<>>, done_set |-> {},
     all_results |-> <<>>, pending |-> <<>>]

\* run_eval.py is not run.
EvalOff == resultsFile = NoFile /\ eval = NoEval /\ runnerCalls = <<>>

\* validate_suspicious_words.py, the detector, analyze_results.py and
\* run_eval.py are not run.
ToolsOff ==
    /\ report = NoReport /\ detector = NoDetector
    /\ cerInput = NoCerInput /\ cerResult = NoCerResult
    /\ EvalOff

SeqRange(q) == {q[i] : i \in DOMAIN q}

Min(a, b) == IF a < b THEN a ELSE b

Max(a, b) == IF a > b THEN a ELSE b

(***************************************************************************)
(* Bounds of the model.                                                    *)
(***************************************************************************)
MaxWordLen == 2

MaxTextLen == 2

(***************************************************************************)
(* test_bert_scoring.py                                                    *)
(***************************************************************************)

\* The characters run_test is tried on: yin, ying (a nasal pair), mu (paired
\* with itself in nasal_pairs).
ScoreChars == {"yin", "ying", "mu"}

\* Every character of main()'s hard-coded calls, and of nasal_pairs.
Vocab ==
    ScoreChars \cup
    {"min", "ming", "pin", "ping", "zhen4", "zhen4b", "quan2", "quan2b",
     "xin1", "xin1b", "you1", "you1b", "di3", "di1", "yuan2", "yuan2b",
     "ku4", "ku3"}

WordsOver(chars, n) == UNION {[1..k -> chars] : k \in 1..n}

\* nasal_pairs of is_nasal_pair.
NasalPairs ==
    {<<"yin", "ying">>, <<"ying", "yin">>,
     <<"mu", "mu">>,
     <<"min", "ming">>, <<"ming", "min">>,
     <<"pin", "ping">>, <<"ping", "pin">>}

\* is_nasal_pair(a, b): some zipped position holds a pair of nasal_pairs.
IsNasalPair(a, b) ==
    \E i \in 1..Min(Len(a), Len(b)) : <<a[i], b[i]>> \in NasalPairs

HomophoneThreshold == 20

NasalThreshold == 25

ThresholdUniform(original, candidate) == HomophoneThreshold

ThresholdByLength(original, candidate) ==
    IF IsNasalPair(original, candidate) \/ Len(candidate) > 1
    THEN NasalThreshold
    ELSE HomophoneThreshold

\* threshold = nasal_threshold if is_nasal_pair(original, candidate)
\*             else homophone_threshold
Threshold(original, candidate) ==
    IF IsNasalPair(original, candidate) THEN NasalThreshold
    ELSE HomophoneThreshold

VerdictLoose(score, threshold) ==
    IF score >= threshold THEN "accept" ELSE "reject"

\* verdict = "accept" if score > threshold else "reject"
Verdict(score, threshold) ==
    IF score > threshold THEN "accept" ELSE "reject"

(***************************************************************************)
(* The oracle.  For the text masked at a position the model answers with   *)
(* a logit for every token, or the call raises (the tokenizer or the model *)
(* fails).  An answer is [raised, logits].                                 *)
(***************************************************************************)
FlatRow == [ch \in Vocab |-> 0]

HotRow(h, v) == [ch \in Vocab |-> IF ch = h THEN v ELSE 0]

OracleFailure == [raised |-> TRUE, logits |-> FlatRow]

\* The answers tried at a position where original holds o and candidate c:
\* the candidate ahead by exactly the default threshold, by exactly the nasal
\* threshold, by more; the original ahead; no preference; a failure.
AnswersFor(o, c) ==
    IF o = c THEN {[raised |-> FALSE, logits |-> FlatRow]}
    ELSE {[raised |-> FALSE, logits |-> HotRow(c, v)] : v \in {20, 25, 26}}
         \cup {[raised |-> FALSE, logits |-> HotRow(o, 25)],
               [raised |-> FALSE, logits |-> FlatRow],
               OracleFailure}

\* The character a word holds at text position p when it starts at offset
\* ("" when p is outside the word).
CharAt(word, offset, p) ==
    IF (p - offset + 1) \in 1..Len(word) THEN word[p - offset + 1] ELSE ""

\* The answers tried at text position p of a call.
AnswersAt(offset, original, candidate, p) ==
    AnswersFor(CharAt(original, offset, p), CharAt(candidate, offset, p))

\* The oracles tried for a call: one answer for each of the first n positions
\* of the text; oracle[p + 1] is the answer for the text masked at p.
RECURSIVE OraclesFor(_, _, _, _)
OraclesFor(n, offset, original, candidate) ==
    IF n = 0 THEN {<<>>}
    ELSE {Append(s, a) :
            s \in OraclesFor(n - 1, offset, original, candidate),
            a \in AnswersAt(offset, original, candidate, n - 1)}

\* score_replacement: chars[position] = "[MASK]" raises IndexError past the
\* end of the text; the model call may raise; otherwise the result is
\* logits[cand_id] - logits[orig_id].
ScoreReplacement(textLen, oracle, position, original_char, candidate_char) ==
    IF position >= textLen \/ oracle[position + 1].raised
    THEN [raised |-> TRUE, value |-> 0]
    ELSE [raised |-> FALSE,
          value |-> oracle[position + 1].logits[candidate_char]
                    - oracle[position + 1].logits[original_char]]

DiffersAlways(o, c) == TRUE

\* if o != c:
Differs(o, c) == o # c

PositionOffByOne(word_offset, i) == word_offset + i

\* word_offset + i, for the i-th zipped pair (i counts from 1 here).
Position(word_offset, i) == word_offset + (i - 1)

\* One turn of score_word_replacement's loop over zip(original, candidate).
\* acc is [raised, total, calls]; calls lists the oracle invocations made.
ScoreLoopBody(acc, t, i) ==
    IF acc.raised \/ ~Differs(t.original[i], t.candidate[i]) THEN acc
    ELSE LET pos == Position(t.offset, i)
             r == ScoreReplacement(t.textLen, t.oracle, pos,
                                   t.original[i], t.candidate[i])
             call == [position |-> pos, original_char |-> t.original[i],
                      candidate_char |-> t.candidate[i]]
         IN  [raised |-> r.raised,
              total |-> acc.total + r.value,
              calls |-> Append(acc.calls, call)]

RECURSIVE ScoreLoop(_, _)
ScoreLoop(t, i) ==
    IF i = 0 THEN [raised |-> FALSE, total |-> 0, calls |-> <<>>]
    ELSE ScoreLoopBody(ScoreLoop(t, i - 1), t, i)

\* score_word_replacement(text, word_offset, original_word, candidate_word):
\* [raised, total, calls].
ScoreWordReplacement(t) ==
    ScoreLoop(t, Min(Len(t.original), Len(t.candidate)))

\* run_test: the score, and the threshold and verdict it prints.  When
\* score_word_replacement raises, so does run_test: nothing is printed after.
RunTestResult(t) ==
    LET s == ScoreWordReplacement(t)
        th == Threshold(t.original, t.candidate)
    IN  IF s.raised
        THEN [state |-> "raised", score |-> 0, calls |-> s.calls,
              threshold |-> 0, verdict |-> "none"]
        ELSE [state |-> "returned", score |-> s.total, calls |-> s.calls,
              threshold |-> th, verdict |-> Verdict(s.total, th)]

NoOutcome ==
    [state |-> "idle", score |-> 0, calls |-> <<>>, threshold |-> 0,
     verdict |-> "none"]

NoTest ==
    [textLen |-> 0, offset |-> 0, original |-> <<>>, candidate |-> <<>>,
     oracle |-> <<>>]

\* The run_test calls tried: every text length, every offset up to the end of
\* the text, every pair of words, every oracle.
Init ==
    /\ \E n \in 1..MaxTextLen :
       \E off \in 0..n :
       \E o \in WordsOver(ScoreChars, MaxWordLen) :
       \E c \in WordsOver(ScoreChars, MaxWordLen) :
       \E orc \in OraclesFor(n, off, o, c) :
          test = [textLen |-> n, offset |-> off, original |-> o,
                  candidate |-> c, oracle |-> orc]
    /\ outcome = NoOutcome
    /\ mainIdx = 0
    /\ mainLog = <<>>
    /\ mainState = "off"
    /\ TableOff
    /\ BuildOff
    /\ ToolsOff

\* One call of run_test.
RunTest ==
    /\ outcome.state = "idle"
    /\ mainState = "off"
    /\ outcome' = RunTestResult(test)
    /\ UNCHANGED <<test, mainIdx, mainLog, mainState, freqs, tableRow, buildVars,
                   toolVars>>

Next == RunTest

Spec == Init /\ [][Next]_vars

(***************************************************************************)
(* main(): the hard-coded run_test calls, in order.  A text is its length. *)
(***************************************************************************)
MainCases ==
    << [textLen |-> 8, offset |-> 2, original |-> <<"yin", "mu">>,
        candidate |-> <<"ying", "mu">>],
       [textLen |-> 6, offset |-> 2, original |-> <<"yin", "mu">>,
        candidate |-> <<"ying", "mu">>],
       [textLen |-> 7, offset |-> 5, original |-> <<"zhen4">>,
        candidate |-> <<"zhen4b">>],
       [textLen |-> 9, offset |-> 2, original |-> <<"zhen4b">>,
        candidate |-> <<"zhen4">>],
       [textLen |-> 7, offset |-> 5, original |-> <<"quan2">>,
        candidate |-> <<"quan2b">>],
       [textLen |-> 8, offset |-> 6, original |-> <<"xin1">>,
        candidate |-> <<"xin1b">>],
       [textLen |-> 8, offset |-> 6, original |-> <<"you1">>,
        candidate |-> <<"you1b">>],
       [textLen |-> 6, offset |-> 5, original |-> <<"di3">>,
        candidate |-> <<"di1">>],
       [textLen |-> 6, offset |-> 2, original |-> <<"yin">>,
        candidate |-> <<"yin">>],
       [textLen |-> 9, offset |-> 4, original |-> <<"yuan2">>,
        candidate |-> <<"yuan2b">>],
       [textLen |-> 5, offset |-> 4, original |-> <<"ku4">>,
        candidate |-> <<"ku3">>] >>

InitMain ==
    /\ test = NoTest
    /\ outcome = NoOutcome
    /\ mainIdx = 1
    /\ mainLog = <<>>
    /\ mainState = "running"
    /\ TableOff
    /\ BuildOff
    /\ ToolsOff

\* main() makes its next run_test call.  An exception of run_test is caught
\* nowhere: it ends main(), and the calls after it are never made.
MainRunTest ==
    /\ mainState = "running"
    /\ UNCHANGED <<freqs, tableRow, buildVars, toolVars>>
    /\ \E orc \in OraclesFor(MainCases[mainIdx].textLen, MainCases[mainIdx].offset,
                             MainCases[mainIdx].original,
                             MainCases[mainIdx].candidate) :
         LET c == MainCases[mainIdx]
             t == [textLen |-> c.textLen, offset |-> c.offset,
                   original |-> c.original, candidate |-> c.candidate,
                   oracle |-> orc]
             r == RunTestResult(t)
         IN  /\ test' = t
             /\ outcome' = r
             /\ IF r.state = "raised"
                THEN /\ mainState' = "raised"
                     /\ UNCHANGED <<mainIdx, mainLog>>
                ELSE /\ mainLog' = Append(mainLog, r.verdict)
                     /\ mainIdx' = mainIdx + 1
                     /\ mainState' = IF mainIdx = Len(MainCases)
                                     THEN "finished" ELSE "running"

NextMain == MainRunTest

SpecMain == InitMain /\ [][NextMain]_vars

(***************************************************************************)
(* main(): the table comparing frequency scoring with contextual scoring.  *)
(* A difference of logarithms ln(a) - ln(b) is kept as the ratio a / b it  *)
(* is the logarithm of: [num |-> a, den |-> b].  It is positive exactly    *)
(* when a > b, and np.log(0) is -inf, the logarithm of the ratio 0.        *)
(***************************************************************************)
MaxFreq == 3

FreqScoreUnsmoothed(orig_freq, cand_freq) ==
    [num |-> cand_freq, den |-> orig_freq]

\* freq_score = np.log(cand_freq) - np.log(orig_freq + 1)
FreqScore(orig_freq, cand_freq) == [num |-> cand_freq, den |-> orig_freq + 1]

\* freq_score > 0
Positive(fs) == fs.num > fs.den

\* exp(2.5) = 12.18249..., to three decimals; no ratio of two frequencies
\* tried lies between 12.182 and exp(2.5).
ExpFreqThresholdMilli == 12182

\* freq_verdict = "fix" if freq_score > 2.5 else "keep"
FreqVerdict(fs) ==
    IF fs.num * 1000 > ExpFreqThresholdMilli * fs.den THEN "fix" ELSE "keep"

TableBertThreshold == 20

\* bert_verdict = "fix" if bert_score > 2.0 else "keep"
BertVerdict(bert_score) ==
    IF bert_score > TableBertThreshold THEN "fix" ELSE "keep"

\* The (text, offset, orig, cand) of the rows of comparisons.
Comparisons ==
    << [textLen |-> 8, offset |-> 2, original |-> <<"yin", "mu">>,
        candidate |-> <<"ying", "mu">>],
       [textLen |-> 6, offset |-> 2, original |-> <<"yin", "mu">>,
        candidate |-> <<"ying", "mu">>],
       [textLen |-> 6, offset |-> 5, original |-> <<"di3">>,
        candidate |-> <<"di1">>],
       [textLen |-> 5, offset |-> 4, original |-> <<"ku4">>,
        candidate |-> <<"ku3">>] >>

\* The (orig_freq, cand_freq) of the rows of comparisons.
ComparisonFreqs == {<<10, 50000>>, <<5000, 30000>>, <<200, 15000>>}

\* The frequencies tried: those of comparisons, and the small ones, where
\* the + 1 of the smoothing shows.
Freqs ==
    (0..MaxFreq) \cup {p[1] : p \in ComparisonFreqs}
                 \cup {p[2] : p \in ComparisonFreqs}

\* One row of the table, for every pair of frequencies and every oracle.
InitTable ==
    /\ \E k \in 1..Len(Comparisons) :
       \E orc \in OraclesFor(Comparisons[k].textLen, Comparisons[k].offset,
                             Comparisons[k].original,
                             Comparisons[k].candidate) :
          test = [textLen |-> Comparisons[k].textLen,
                  offset |-> Comparisons[k].offset,
                  original |-> Comparisons[k].original,
                  candidate |-> Comparisons[k].candidate, oracle |-> orc]
    /\ \E o \in Freqs : \E c \in Freqs :
          freqs = [orig_freq |-> o, cand_freq |-> c, given |-> TRUE]
    /\ tableRow = NoRow
    /\ outcome = NoOutcome
    /\ mainIdx = 0
    /\ mainLog = <<>>
    /\ mainState = "off"
    /\ BuildOff
    /\ ToolsOff

\* One turn of the loop over comparisons: the row it prints.  An exception
\* of score_word_replacement ends main() before the row is printed.
CompareRow ==
    /\ freqs.given
    /\ tableRow.state = "idle"
    /\ LET fs == FreqScore(freqs.orig_freq, freqs.cand_freq)
           b == ScoreWordReplacement(test)
       IN  tableRow' =
             IF b.raised
             THEN [NoRow EXCEPT !.state = "raised", !.freq_score = fs]
             ELSE [state |-> "printed", freq_score |-> fs,
                   bert_score |-> b.total,
                   freq_verdict |-> FreqVerdict(fs),
                   bert_verdict |-> BertVerdict(b.total)]
    /\ UNCHANGED <<test, outcome, mainIdx, mainLog, mainState, freqs,
                   buildVars, toolVars>>

NextTable == CompareRow

SpecTable == InitTable /\ [][NextTable]_vars

(***************************************************************************)
(* prepare_pinyin_data.py                                                  *)
(*                                                                         *)
(* A Python dict is a sequence of [k, v] entries with distinct keys, in    *)
(* insertion order.  A word is a sequence of characters.  A reading is a   *)
(* sequence of symbols, e.g. <<"cheng", "2">> for "cheng2".                *)
(***************************************************************************)
DictKeys(d) == {d[i].k : i \in DOMAIN d}

DictHas(d, key) == \E i \in DOMAIN d : d[i].k = key

DictGet(d, key) == d[CHOOSE i \in DOMAIN d : d[i].k = key].v

\* d[key] of a defaultdict(int), or d.get(key, default).
DictGetOr(d, key, default) == IF DictHas(d, key) THEN DictGet(d, key) ELSE default

DictPutAppend(d, key, val) == Append(d, [k |-> key, v |-> val])

\* d[key] = val: an existing key keeps its place, a new key goes last.
DictPut(d, key, val) ==
    IF DictHas(d, key)
    THEN [i \in DOMAIN d |-> IF d[i].k = key THEN [k |-> key, v |-> val] ELSE d[i]]
    ELSE Append(d, [k |-> key, v |-> val])

\* The place of x in a sequence that lists it once.
IndexIn(order, x) == CHOOSE i \in DOMAIN order : order[i] = x

\* The code points the model ranges over, in code point order:
\* U+3400 (Extension A), U+5F0F shi, U+7801 ma_s (simplified), U+78BC ma,
\* U+7A0B cheng.
CodePointOrder == <<"qiu", "shi", "ma_s", "ma", "cheng">>

\* range(0x4E00, 0x9FFF + 1)
UnifiedBlock == <<"shi", "ma_s", "ma", "cheng">>

\* range(0x3400, 0x4DBF + 1)
ExtensionABlock == <<"qiu">>

Digits == {"0", "1", "2", "3", "4", "5", "6", "7", "8", "9"}

\* The symbols of readings in the order of their first code point (digits
\* before letters), and the longest reading of the model.
SymbolOrder ==
    <<"0", "1", "2", "3", "4", "5", "6", "7", "8", "9",
      "cheng", "ma", "qiu", "sheng", "shi">>

MaxReadingLen == 3

\* A number that orders readings as Python orders the strings: symbol by
\* symbol, a prefix before its extensions.
RECURSIVE StringKey(_, _)
StringKey(py, n) ==
    IF n = 0 THEN 0
    ELSE StringKey(py, n - 1) * (Len(SymbolOrder) + 1)
         + (IF n <= Len(py) THEN IndexIn(SymbolOrder, py[n]) ELSE 0)

\* sorted(): a stable insertion sort of entries [key, item] by ascending key.
RECURSIVE InsertByKey(_, _)
InsertByKey(sorted, e) ==
    IF sorted = <<>> \/ sorted[Len(sorted)].key <= e.key THEN Append(sorted, e)
    ELSE Append(InsertByKey(SubSeq(sorted, 1, Len(sorted) - 1), e),
                sorted[Len(sorted)])

RECURSIVE StableSort(_)
StableSort(q) ==
    IF q = <<>> THEN <<>>
    ELSE InsertByKey(StableSort(SubSeq(q, 1, Len(q) - 1)), q[Len(q)])

\* sorted(v) of a list of characters: by code point.
SortedChars(v) ==
    LET keyed == [i \in DOMAIN v |->
                    [key |-> IndexIn(CodePointOrder, v[i]), item |-> v[i]]]
        sorted == StableSort(keyed)
    IN  [i \in DOMAIN sorted |-> sorted[i].item]

\* sorted(d.items()) of a dict whose keys are toneless readings: by key.
SortedItems(d) ==
    LET keyed == [i \in DOMAIN d |->
                    [key |-> StringKey(d[i].k, MaxReadingLen), item |-> d[i]]]
        sorted == StableSort(keyed)
    IN  [i \in DOMAIN sorted |-> sorted[i].item]

\* strip_tone: re.sub(r"\d+$", "", py) removes the trailing run of digits.
RECURSIVE StripTone(_)
StripTone(py) ==
    IF Len(py) > 0 /\ py[Len(py)] \in Digits
    THEN StripTone(SubSeq(py, 1, Len(py) - 1))
    ELSE py

\* list(dict.fromkeys(r for r in readings[0] if r)): the non-empty readings,
\* each once, in order of first occurrence.
RECURSIVE CleanReadings(_)
CleanReadings(raw) ==
    IF raw = <<>> THEN <<>>
    ELSE LET init == CleanReadings(SubSeq(raw, 1, Len(raw) - 1))
             r == raw[Len(raw)]
         IN  IF r = <<>> \/ (\E j \in DOMAIN init : init[j] = r)
             THEN init ELSE Append(init, r)

\* One loop of generate_char_pinyin over a block of code points.
RECURSIVE CharPinyinBlock(_, _, _, _)
CharPinyinBlock(acc, py, block, n) ==
    IF n = 0 THEN acc
    ELSE LET before == CharPinyinBlock(acc, py, block, n - 1)
             char == block[n]
             pys == CleanReadings(py[char])
         IN  IF py[char] # <<>> /\ pys # <<>>
             THEN DictPut(before, char, pys) ELSE before

\* generate_char_pinyin: the dict it returns and writes to char_pinyin.json.
GenerateCharPinyin(py) ==
    CharPinyinBlock(
        CharPinyinBlock(<<>>, py, UnifiedBlock, Len(UnifiedBlock)),
        py, ExtensionABlock, Len(ExtensionABlock))

GroupReplaced(group, char) == <<char>>

\* pinyin_chars[toneless].append(char)
GroupAppended(group, char) == Append(group, char)

RECURSIVE InvertReadingsUnseen(_, _, _, _)
InvertReadingsUnseen(acc, char, readings, n) ==
    IF n = 0 THEN acc
    ELSE LET before == InvertReadingsUnseen(acc, char, readings, n - 1)
             toneless == StripTone(readings[n])
         IN  IF toneless # <<>>
             THEN [groups |-> DictPut(before.groups, toneless,
                                GroupAppended(DictGetOr(before.groups, toneless, <<>>),
                                              char)),
                   seen |-> before.seen \cup {toneless}]
             ELSE before

\* The inner loop of generate_pinyin_chars over the readings of one char.
\* acc is [groups, seen].
RECURSIVE InvertReadings(_, _, _, _)
InvertReadings(acc, char, readings, n) ==
    IF n = 0 THEN acc
    ELSE LET before == InvertReadings(acc, char, readings, n - 1)
             toneless == StripTone(readings[n])
         IN  IF toneless # <<>> /\ toneless \notin before.seen
             THEN [groups |-> DictPut(before.groups, toneless,
                                GroupAppended(DictGetOr(before.groups, toneless, <<>>),
                                              char)),
                   seen |-> before.seen \cup {toneless}]
             ELSE before

\* The outer loop of generate_pinyin_chars over char_pinyin.items().
RECURSIVE InvertChars(_, _)
InvertChars(cpin, n) ==
    IF n = 0 THEN <<>>
    ELSE InvertReadings(
            [groups |-> InvertChars(cpin, n - 1), seen |-> {}],
            cpin[n].k, cpin[n].v, Len(cpin[n].v)).groups

\* generate_pinyin_chars: {k: sorted(v) for k, v in sorted(pinyin_chars.items())}
GeneratePinyinChars(cpin) ==
    LET items == SortedItems(InvertChars(cpin, Len(cpin)))
    IN  [i \in DOMAIN items |->
            [k |-> items[i].k, v |-> SortedChars(items[i].v)]]

\* TAIWAN_EXTRA_WORDS: its entries over the model's characters, in source
\* order ("cheng shi ma": 60000, "cheng shi": 80000).
TaiwanExtraWords ==
    << [k |-> <<"cheng", "shi", "ma">>, v |-> 60000],
       [k |-> <<"cheng", "shi">>, v |-> 80000] >>

\* TAIWAN_EXTRA_BIGRAMS: its entries over the model's characters.
TaiwanExtraBigrams ==
    << [k |-> <<"cheng", "shi">>, v |-> 80000],
       [k |-> <<"shi", "ma">>, v |-> 60000] >>

\* converter.convert(word): OpenCC s2twp maps a simplified character to its
\* traditional form and leaves a traditional character as it is.
Convert(word) ==
    [i \in DOMAIN word |-> IF word[i] = "ma_s" THEN "ma" ELSE word[i]]

\* The loop of generate_word_freq over the lines of the corpus file.  A line
\* is [fields, word, numeric, freq]: the number of whitespace-separated
\* fields, the first field, whether int() accepts the second, and its value.
RECURSIVE ReadCorpus(_, _)
ReadCorpus(lines, n) ==
    IF n = 0 THEN <<>>
    ELSE LET before == ReadCorpus(lines, n - 1)
             line == lines[n]
             tw_word == Convert(line.word)
         IN  IF line.fields >= 2 /\ line.numeric
             THEN DictPut(before, tw_word,
                          DictGetOr(before, tw_word, 0) + line.freq)
             ELSE before

BoostedOverwrite(old, freq) == freq

\* max(word_freq[word], freq)
Boosted(old, freq) == Max(old, freq)

\* for key, freq in table.items(): d[key] = max(d[key], freq)
RECURSIVE Boost(_, _, _)
Boost(d, table, n) ==
    IF n = 0 THEN d
    ELSE LET before == Boost(d, table, n - 1)
         IN  DictPut(before, table[n].k,
                     Boosted(DictGetOr(before, table[n].k, 0), table[n].v))

\* for char in char_pinyin: if char not in word_freq: word_freq[char] = 1
RECURSIVE AddSingleChars(_, _, _)
AddSingleChars(d, cpin, n) ==
    IF n = 0 THEN d
    ELSE LET before == AddSingleChars(d, cpin, n - 1)
             word == <<cpin[n].k>>
         IN  IF ~DictHas(before, word) THEN DictPut(before, word, 1)
             ELSE before

\* generate_word_freq: the dict it returns.
GenerateWordFreq(cpin, lines) ==
    AddSingleChars(
        Boost(ReadCorpus(lines, Len(lines)), TaiwanExtraWords,
              Len(TaiwanExtraWords)),
        cpin, Len(cpin))

SortedByFrequencyRunOrder(d) ==
    LET src == IF runs % 2 = 0 THEN [i \in DOMAIN d |-> d[Len(d) + 1 - i]]
               ELSE d
        keyed == [i \in DOMAIN src |-> [key |-> 0 - src[i].v, item |-> src[i]]]
        sorted == StableSort(keyed)
    IN  [i \in DOMAIN sorted |-> sorted[i].item]

\* sorted(d.items(), key=lambda x: -x[1]), one file line per item.
SortedByFrequency(d) ==
    LET keyed == [i \in DOMAIN d |-> [key |-> 0 - d[i].v, item |-> d[i]]]
        sorted == StableSort(keyed)
    IN  [i \in DOMAIN sorted |-> sorted[i].item]

(***************************************************************************)
(* word_freq.tsv as text.  A text is a sequence of characters: the         *)
(* characters of words, decimal digits, "-", Tab and Newline.              *)
(***************************************************************************)
Tab == "TAB"

Newline == "NL"

DecimalDigits == <<"0", "1", "2", "3", "4", "5", "6", "7", "8", "9">>

\* str(n) for n >= 0
RECURSIVE FormatNat(_)
FormatNat(n) ==
    IF n < 10 THEN <<DecimalDigits[n + 1]>>
    ELSE Append(FormatNat(n \div 10), DecimalDigits[(n % 10) + 1])

FormatIntShort(n) == FormatNat(n % 10000)

\* f"{freq}"
FormatInt(n) == IF n < 0 THEN <<"-">> \o FormatNat(0 - n) ELSE FormatNat(n)

\* f"{word}\t{freq}\n"
FormatLine(word, freq) == word \o <<Tab>> \o FormatInt(freq) \o <<Newline>>

\* for word, freq in sorted_words: f.write(f"{word}\t{freq}\n")
RECURSIVE WriteLines(_, _)
WriteLines(items, n) ==
    IF n = 0 THEN <<>>
    ELSE WriteLines(items, n - 1) \o FormatLine(items[n].k, items[n].v)

\* The text of word_freq.tsv for a word_freq dict.
WordFreqTsv(d) == WriteLines(SortedByFrequency(d), Len(d))

WindowCountShort(word) == Len(word) - 2

\* range(len(chars) - 1)
WindowCount(word) == Len(word) - 1

\* for j in range(len(chars) - 1): bigram_freq[chars[j] + chars[j + 1]] += freq
RECURSIVE SlideWindow(_, _, _, _)
SlideWindow(acc, word, freq, j) ==
    IF j <= 0 THEN acc
    ELSE LET before == SlideWindow(acc, word, freq, j - 1)
             bigram == <<word[j], word[j + 1]>>
         IN  DictPut(before, bigram, DictGetOr(before, bigram, 0) + freq)

\* The loop of generate_bigram_freq over word_freq.items(): the counts before
\* boosting and pruning.
RECURSIVE BigramCounts(_, _)
BigramCounts(wfreq, n) ==
    IF n = 0 THEN <<>>
    ELSE LET before == BigramCounts(wfreq, n - 1)
         IN  IF Len(wfreq[n].k) < 2 THEN before
             ELSE SlideWindow(before, wfreq[n].k, wfreq[n].v,
                              WindowCount(wfreq[n].k))

PruneThreshold == 50

KeptLoose(freq) == freq >= PruneThreshold

\* if freq > 50
Kept(freq) == freq > PruneThreshold

\* {bg: freq for bg, freq in bigram_freq.items() if freq > 50}
Filtered(d) ==
    LET Keep(e) == Kept(e.v) IN SelectSeq(d, Keep)

\* The boosted totals of generate_bigram_freq, before pruning.
BoostedBigrams(wfreq) ==
    Boost(BigramCounts(wfreq, Len(wfreq)), TaiwanExtraBigrams,
          Len(TaiwanExtraBigrams))

\* generate_bigram_freq: the dict it returns.
GenerateBigramFreq(wfreq) == Filtered(BoostedBigrams(wfreq))

(***************************************************************************)
(* The inputs the build is tried on.                                       *)
(***************************************************************************)
MaxLines == 2

MaxRuns == 2

Cheng2 == <<"cheng", "2">>

\* Every code point has one reading here.
DefaultPinyin ==
    [qiu |-> <<<<"qiu", "1">>>>, shi |-> <<<<"shi", "4">>>>,
     ma_s |-> <<<<"ma", "3">>>>, ma |-> <<<<"ma", "3">>>>,
     cheng |-> <<Cheng2>>]

\* No reading; two readings of one toneless form; two of different forms; a
\* repeated reading and an empty string.
ChengReadings ==
    {<<>>, <<Cheng2, <<"cheng", "4">>>>, <<Cheng2, <<"sheng", "4">>>>,
     <<Cheng2, <<>>, Cheng2>>}

\* One reading; a neutral-tone reading without a digit beside a toned one; a
\* reading in cheng's group; only an empty string.
ShiReadings ==
    {<<<<"shi", "4">>>>, <<<<"shi">>, <<"shi", "4">>>>, <<Cheng2>>, <<<<>>>>}

PinyinTables ==
    {[DefaultPinyin EXCEPT !.cheng = c, !.shi = h] :
        c \in ChengReadings, h \in ShiReadings}

\* Words of the corpus, in its simplified script: a boosted word; two
\* spellings that convert to one word; a word that repeats a bigram; a
\* two-character word; a single character of the phonetic index.
CorpusWords ==
    {<<"cheng", "shi">>, <<"shi", "ma_s">>, <<"shi", "ma">>,
     <<"ma", "ma", "ma">>, <<"ma", "ma">>, <<"ma">>}

CorpusFreqs == {0, 3, 25, 90000}

\* "word freq pos" lines, a line of one field, a line whose second field is
\* no integer.
CorpusLines ==
    {[fields |-> 3, word |-> w, numeric |-> TRUE, freq |-> f] :
        w \in CorpusWords, f \in CorpusFreqs}
    \cup {[fields |-> 1, word |-> <<"ma">>, numeric |-> FALSE, freq |-> 0],
          [fields |-> 2, word |-> <<"ma">>, numeric |-> FALSE, freq |-> 0]}

Corpora == UNION {[1..n -> CorpusLines] : n \in 0..MaxLines}

Line(w, f) == [fields |-> 3, word |-> w, numeric |-> TRUE, freq |-> f]

SampleCorpora ==
    {<<>>,
     <<Line(<<"cheng", "shi">>, 25), Line(<<"shi">>, 25)>>,
     <<Line(<<"cheng">>, 90000), Line(<<"ma", "ma", "ma">>, 25)>>,
     <<Line(<<"ma", "shi", "cheng">>, 90000), Line(<<"ma", "ma">>, 90000)>>}

Networks == {"up", "down", "cut"}

(***************************************************************************)
(* main() of prepare_pinyin_data.py, step by step.                         *)
(***************************************************************************)
FreshRun ==
    /\ buildState = "char_pinyin" /\ runs = 1 /\ written = {}
    /\ char_pinyin = <<>> /\ pinyin_chars = <<>>
    /\ word_freq = <<>> /\ bigram_freq = <<>>
    /\ cache = NoFile /\ files = NoFiles
    /\ test = NoTest /\ outcome = NoOutcome
    /\ mainIdx = 0 /\ mainLog = <<>> /\ mainState = "off"
    /\ TableOff
    /\ ToolsOff

\* The generators on many inputs, the network up.
InitData ==
    /\ \/ pypinyin \in PinyinTables /\ upstream \in SampleCorpora
       \/ pypinyin = DefaultPinyin /\ upstream \in Corpora
    /\ network = "up"
    /\ FreshRun

\* Runs of main() with any network, on a few inputs.
InitBuild ==
    /\ pypinyin = DefaultPinyin
    /\ upstream \in SampleCorpora
    /\ network \in Networks
    /\ FreshRun

\* ensure_dirs(); char_pinyin = generate_char_pinyin()
GenerateCharPinyinStep ==
    /\ buildState = "char_pinyin"
    /\ char_pinyin' = GenerateCharPinyin(pypinyin)
    /\ files' = [files EXCEPT !.char_pinyin =
                    [exists |-> TRUE, content |-> GenerateCharPinyin(pypinyin)]]
    /\ written' = written \cup {"char_pinyin.json"}
    /\ buildState' = "pinyin_chars"
    /\ UNCHANGED <<scoreVars, toolVars, pypinyin, upstream, network, cache, runs,
                   pinyin_chars, word_freq, bigram_freq>>

\* pinyin_chars = generate_pinyin_chars(char_pinyin)
GeneratePinyinCharsStep ==
    /\ buildState = "pinyin_chars"
    /\ pinyin_chars' = GeneratePinyinChars(char_pinyin)
    /\ files' = [files EXCEPT !.pinyin_chars =
                    [exists |-> TRUE, content |-> GeneratePinyinChars(char_pinyin)]]
    /\ written' = written \cup {"pinyin_chars.json"}
    /\ buildState' = "word_freq"
    /\ UNCHANGED <<scoreVars, toolVars, pypinyin, upstream, network, cache, runs,
                   char_pinyin, word_freq, bigram_freq>>

\* download_jieba_dict(): [raised, file], file being the cache file after the
\* call.  An existing cache file is used as it is.  Otherwise urlretrieve
\* writes the download to the cache path: nothing with the network down; all
\* lines with it up; the first k lines, and an exception, when the
\* connection breaks after k lines.
DownloadJiebaDict(k) ==
    IF cache.exists THEN [raised |-> FALSE, file |-> cache]
    ELSE IF network = "up"
         THEN [raised |-> FALSE, file |-> [exists |-> TRUE, content |-> upstream]]
    ELSE IF network = "down" THEN [raised |-> TRUE, file |-> cache]
    ELSE [raised |-> TRUE,
          file |-> [exists |-> TRUE, content |-> SubSeq(upstream, 1, k)]]

\* word_freq = generate_word_freq(char_pinyin).  An exception of
\* download_jieba_dict is caught nowhere: it ends main().
GenerateWordFreqStep ==
    /\ buildState = "word_freq"
    /\ \E k \in 0..Max(0, Len(upstream) - 1) :
         LET d == DownloadJiebaDict(k)
             wf == GenerateWordFreq(char_pinyin, d.file.content)
         IN  /\ cache' = d.file
             /\ IF d.raised
                THEN /\ buildState' = "failed"
                     /\ UNCHANGED <<word_freq, files, written>>
                ELSE /\ word_freq' = wf
                     /\ files' = [files EXCEPT !.word_freq =
                            [exists |-> TRUE, content |-> WordFreqTsv(wf)]]
                     /\ written' = written \cup {"word_freq.tsv"}
                     /\ buildState' = "bigram_freq"
    /\ UNCHANGED <<scoreVars, toolVars, pypinyin, upstream, network, runs, char_pinyin,
                   pinyin_chars, bigram_freq>>

\* bigram_freq = generate_bigram_freq(word_freq)
GenerateBigramFreqStep ==
    /\ buildState = "bigram_freq"
    /\ bigram_freq' = GenerateBigramFreq(word_freq)
    /\ files' = [files EXCEPT !.bigram_freq =
                    [exists |-> TRUE,
                     content |-> SortedByFrequency(GenerateBigramFreq(word_freq))]]
    /\ written' = written \cup {"bigram_freq.tsv"}
    /\ buildState' = "validate"
    /\ UNCHANGED <<scoreVars, toolVars, pypinyin, upstream, network, cache, runs,
                   char_pinyin, pinyin_chars, word_freq>>

\* validate(...) and the report of the file sizes: they only read and print.
ValidateStep ==
    /\ buildState = "validate"
    /\ buildState' = "done"
    /\ UNCHANGED <<scoreVars, toolVars, pypinyin, upstream, network, cache, files, runs,
                   written, char_pinyin, pinyin_chars, word_freq, bigram_freq>>

\* The script is started again, with the cache and the output files as the
\* earlier runs left them.
Restart ==
    /\ buildState \in {"done", "failed"}
    /\ runs < MaxRuns
    /\ runs' = runs + 1
    /\ network' \in Networks
    /\ buildState' = "char_pinyin"
    /\ written' = {}
    /\ char_pinyin' = <<>> /\ pinyin_chars' = <<>>
    /\ word_freq' = <<>> /\ bigram_freq' = <<>>
    /\ UNCHANGED <<scoreVars, toolVars, pypinyin, upstream, cache, files>>

NextData ==
    \/ GenerateCharPinyinStep
    \/ GeneratePinyinCharsStep
    \/ GenerateWordFreqStep
    \/ GenerateBigramFreqStep
    \/ ValidateStep

SpecData == InitData /\ [][NextData]_vars

NextBuild == NextData \/ Restart

SpecBuild == InitBuild /\ [][NextBuild]_vars

(***************************************************************************)
(* validate_suspicious_words.py                                            *)
(***************************************************************************)
\* The k-th smallest member of a finite set of numbers.
Nth(S, k) == CHOOSE e \in S : Cardinality({x \in S : x <= e}) = k

\* for line in f: a line ends after each Newline; a text that does not end
\* in a Newline has a last line without one.
ReadLines(text) ==
    LET ends == {i \in DOMAIN text : text[i] = Newline \/ i = Len(text)}
        from(k) == IF k = 1 THEN 1 ELSE Nth(ends, k - 1) + 1
    IN  [k \in 1..Cardinality(ends) |-> SubSeq(text, from(k), Nth(ends, k))]

\* line.rstrip("\n")
RECURSIVE RStripNewline(_)
RStripNewline(line) ==
    IF line # <<>> /\ line[Len(line)] = Newline
    THEN RStripNewline(SubSeq(line, 1, Len(line) - 1))
    ELSE line

\* str.split("\t"): the parts between the Tabs, empty parts included.
SplitTab(line) ==
    LET tabs == {i \in DOMAIN line : line[i] = Tab}
        from(k) == IF k = 1 THEN 1 ELSE Nth(tabs, k - 1) + 1
        to(k) == IF k = Cardinality(tabs) + 1 THEN Len(line)
                 ELSE Nth(tabs, k) - 1
    IN  [k \in 1..(Cardinality(tabs) + 1) |-> SubSeq(line, from(k), to(k))]

RECURSIVE ParseNat(_)
ParseNat(chars) ==
    IF chars = <<>> THEN 0
    ELSE 10 * ParseNat(SubSeq(chars, 1, Len(chars) - 1))
         + (IndexIn(DecimalDigits, chars[Len(chars)]) - 1)

\* int(freq_str): decimal digits after an optional sign; anything else the
\* texts of the model can hold raises ValueError.  [raised, value].
ParseInt(chars) ==
    LET signed == chars # <<>> /\ chars[1] = "-"
        digits == IF signed THEN SubSeq(chars, 2, Len(chars)) ELSE chars
    IN  IF digits # <<>> /\ \A i \in DOMAIN digits : digits[i] \in Digits
        THEN [raised |-> FALSE,
              value |-> IF signed THEN 0 - ParseNat(digits) ELSE ParseNat(digits)]
        ELSE [raised |-> TRUE, value |-> 0]

\* The loop of load_word_freq over the first n lines.  [raised, freqs].
RECURSIVE LoadLines(_, _)
LoadLines(lines, n) ==
    IF n = 0 THEN [raised |-> FALSE, freqs |-> <<>>]
    ELSE LET a == LoadLines(lines, n - 1)
             parts == SplitTab(RStripNewline(lines[n]))
         IN  IF a.raised \/ Len(parts) # 2 THEN a
             ELSE IF ParseInt(parts[2]).raised
                  THEN [raised |-> TRUE, freqs |-> a.freqs]
                  ELSE [raised |-> FALSE,
                        freqs |-> DictPut(a.freqs, parts[1],
                                          ParseInt(parts[2]).value)]

\* load_word_freq(path) on a file that holds text.  [raised, freqs].
LoadWordFreq(text) == LoadLines(ReadLines(text), Len(ReadLines(text)))

LOW_FREQ_THRESHOLD == 5

LowFreqFromZero(w, f) == 0 <= f /\ f <= LOW_FREQ_THRESHOLD /\ Len(w) >= 2

\* 1 <= f <= LOW_FREQ_THRESHOLD and len(w) >= 2
LowFreq(w, f) == 1 <= f /\ f <= LOW_FREQ_THRESHOLD /\ Len(w) >= 2

\* low_freq_words = {w: f for w, f in freqs.items() if ...}
LowFreqWords(d) == SelectSeq(d, LAMBDA e : LowFreq(e.k, e.v))

\* CJK_RE: one character of [\u4e00-\u9fff\u3400-\u4dbf].
IsCjk(c) == c \in SeqRange(UnifiedBlock) \cup SeqRange(ExtensionABlock)

\* CJK_RE.findall(text): the maximal runs of CJK characters, in order.
RECURSIVE RunsFold(_, _)
RunsFold(text, n) ==
    IF n = 0 THEN [done |-> <<>>, cur |-> <<>>]
    ELSE LET a == RunsFold(text, n - 1)
         IN  IF IsCjk(text[n])
             THEN [done |-> a.done, cur |-> Append(a.cur, text[n])]
             ELSE [done |-> IF a.cur = <<>> THEN a.done
                            ELSE Append(a.done, a.cur),
                   cur |-> <<>>]

CjkRuns(text) ==
    LET a == RunsFold(text, Len(text))
    IN  IF a.cur = <<>> THEN a.done ELSE Append(a.done, a.cur)

\* min_len and max_len of extract_cjk_substrings.
MinSubstringLen == 2

MaxSubstringLen == 4

WindowsOfLengthShort(run, length) ==
    [i \in 1..Max(0, Len(run) - length) |-> SubSeq(run, i, i + length - 1)]

\* for i in range(len(run) - length + 1): run[i : i + length]
WindowsOfLength(run, length) ==
    [i \in 1..Max(0, Len(run) - length + 1) |-> SubSeq(run, i, i + length - 1)]

\* for length in range(min_len, max_len + 1): ...
RECURSIVE RunSubstrings(_, _)
RunSubstrings(run, length) ==
    IF length < MinSubstringLen THEN <<>>
    ELSE RunSubstrings(run, length - 1) \o WindowsOfLength(run, length)

\* for run in runs: ...
RECURSIVE RunsSubstrings(_, _)
RunsSubstrings(runlist, n) ==
    IF n = 0 THEN <<>>
    ELSE RunsSubstrings(runlist, n - 1)
         \o RunSubstrings(runlist[n], MaxSubstringLen)

\* extract_cjk_substrings(text)
ExtractCjkSubstrings(text) ==
    RunsSubstrings(CjkRuns(text), Len(CjkRuns(text)))

RECURSIVE CountSubsOnce(_, _, _, _)
CountSubsOnce(found, low, subs, n) ==
    IF n = 0 THEN found
    ELSE LET before == CountSubsOnce(found, low, subs, n - 1)
         IN  IF DictHas(low, subs[n])
             THEN DictPut(before, subs[n], 1)
             ELSE before

\* for sub in subs: if sub in low_freq_words: found[sub] += 1.  A Counter is
\* a dict: a new key goes last.
RECURSIVE CountSubs(_, _, _, _)
CountSubs(found, low, subs, n) ==
    IF n = 0 THEN found
    ELSE LET before == CountSubs(found, low, subs, n - 1)
         IN  IF DictHas(low, subs[n])
             THEN DictPut(before, subs[n], DictGetOr(before, subs[n], 0) + 1)
             ELSE before

\* The loop of main() over the first n rows.  [found, hits].
RECURSIVE ScanRows(_, _, _)
ScanRows(low, rows, n) ==
    IF n = 0 THEN [found |-> <<>>, hits |-> 0]
    ELSE LET a == ScanRows(low, rows, n - 1)
             subs == ExtractCjkSubstrings(rows[n])
             found == CountSubs(a.found, low, subs, Len(subs))
             record_hit == \E i \in DOMAIN subs : DictHas(low, subs[i])
         IN  IF rows[n] = <<>> THEN a
             ELSE [found |-> found,
                   hits |-> IF record_hit THEN a.hits + 1 ELSE a.hits]



\* The transcriptions tried: texts of the CJK characters shi and ma and of a
\* comma, up to MaxTranscriptLen characters; a store of up to MaxRows rows,
\* all but the first of them either empty or "shi ma".
MaxTranscriptLen == 4

MaxRows == 2

TranscriptChars == {"shi", "ma", "comma"}

Transcripts == UNION {[1..n -> TranscriptChars] : n \in 0..MaxTranscriptLen}

FurtherTranscripts == {<<>>, <<"shi", "ma">>}

Histories ==
    {<<>>} \cup
    UNION {{h \in [1..n -> Transcripts] :
              \A i \in 2..n : h[i] \in FurtherTranscripts} : n \in 1..MaxRows}

\* The corpora the validation is tried on: multi-character words of
\* frequency 0, 3 (low), 6 (two lines of 3 that convert to one word) and
\* above.
ValidateCorpora ==
    {<<>>,
     <<Line(<<"shi", "ma">>, 3)>>,
     <<Line(<<"shi", "ma">>, 3), Line(<<"ma", "ma">>, 0)>>,
     <<Line(<<"ma", "ma", "ma">>, 3), Line(<<"ma", "ma">>, 25)>>,
     <<Line(<<"shi", "ma_s">>, 3), Line(<<"shi", "ma">>, 3)>>,
     <<Line(<<"ma", "ma">>, 3), Line(<<"shi", "ma">>, 90000)>>}

InitValidate ==
    /\ pypinyin = DefaultPinyin
    /\ upstream \in ValidateCorpora
    /\ network = "up"
    /\ FreshRun

\* main(): freqs = load_word_freq(WORD_FREQ_PATH) and low_freq_words, on the
\* file a finished build left.  An exception (no file, a frequency that is
\* no integer) ends main().
LoadWordFreqStep ==
    /\ buildState = "done"
    /\ report.state = "off"
    /\ LET l == LoadWordFreq(files.word_freq.content)
       IN  report' =
             IF ~files.word_freq.exists \/ l.raised
             THEN [NoReport EXCEPT !.state = "raised"]
             ELSE [NoReport EXCEPT !.state = "loaded", !.freqs = l.freqs,
                                   !.low_freq_words = LowFreqWords(l.freqs)]
    /\ UNCHANGED <<scoreVars, buildVars, detector, cerInput, cerResult,
                   resultsFile, eval, runnerCalls>>

\* main(): the rows of the transcription store are read and scanned, and
\* the report is printed, or the note that nothing was found.
ScanTranscriptions ==
    /\ report.state = "loaded"
    /\ \E rows \in Histories :
         LET r == ScanRows(report.low_freq_words, rows, Len(rows))
         IN  report' =
               [report EXCEPT
                  !.state = IF r.found = <<>> THEN "nothing_found"
                            ELSE "reported",
                  !.rows = rows,
                  !.found_in_transcriptions = r.found,
                  !.records_with_hits = r.hits]
    /\ UNCHANGED <<scoreVars, buildVars, detector, cerInput, cerResult,
                   resultsFile, eval, runnerCalls>>

NextLoad == NextData \/ LoadWordFreqStep

SpecLoad == InitData /\ [][NextLoad]_vars

\* A build, then validate_suspicious_words.py on the file it wrote.
NextScan == NextData \/ LoadWordFreqStep \/ ScanTranscriptions

SpecScan == InitValidate /\ [][NextScan]_vars

(***************************************************************************)
(* The suspicious-span detector of the correction engine (findSuspicious), *)
(* after the corrected logic the validation script describes.  A span is   *)
(* [start, len], start counted from 1.                                     *)
(***************************************************************************)
\* The ways a tokenizer may cut a text of n characters: the lengths of the
\* tokens, in order.  No boundary rule is fixed.
RECURSIVE Segmentations(_)
Segmentations(n) ==
    IF n = 0 THEN {<<>>}
    ELSE UNION {{<<k>> \o rest : rest \in Segmentations(n - k)} : k \in 1..n}

\* The spans of the tokens of a segmentation.
RECURSIVE TokenStart(_, _)
TokenStart(seg, i) == IF i = 1 THEN 1 ELSE TokenStart(seg, i - 1) + seg[i - 1]

TokenSpans(seg) ==
    {[start |-> TokenStart(seg, i), len |-> seg[i]] : i \in DOMAIN seg}

SpanWord(text, span) == SubSeq(text, span.start, span.start + span.len - 1)

\* The spans the detector looks at: 2..4 characters within a CJK run.
CandidateSpans(text) ==
    {sp \in [start : DOMAIN text, len : MinSubstringLen..MaxSubstringLen] :
        /\ sp.start + sp.len - 1 <= Len(text)
        /\ \A i \in sp.start..(sp.start + sp.len - 1) : IsCjk(text[i])}

\* The frequency of a word in the store; a word the store lacks has 0.
StoreFrequency(store, word) == DictGetOr(store, word, 0)

\* A span that is one token and has a frequency above 0 is trusted.
Trusted(store, text, seg, span) ==
    /\ span \in TokenSpans(seg)
    /\ StoreFrequency(store, SpanWord(text, span)) > 0

\* The suspicious spans of a text: absent from the store or of low
\* frequency, and not trusted.
FindSuspicious(store, text, seg) ==
    {sp \in CandidateSpans(text) :
        /\ StoreFrequency(store, SpanWord(text, sp)) <= LOW_FREQ_THRESHOLD
        /\ ~Trusted(store, text, seg, sp)}

\* A segmentation for each of the first n rows.
RECURSIVE RowSegmentations(_, _)
RowSegmentations(rows, n) ==
    IF n = 0 THEN {<<>>}
    ELSE {Append(segs, seg) : segs \in RowSegmentations(rows, n - 1),
                              seg \in Segmentations(Len(rows[n]))}

\* The detector runs on every row the script scanned, with the store the
\* script loaded.
FindSuspiciousStep ==
    /\ report.state \in {"nothing_found", "reported"}
    /\ detector.state = "off"
    /\ \E segs \in RowSegmentations(report.rows, Len(report.rows)) :
         detector' =
            [state |-> "done", tokens |-> segs,
             suspicious |->
                [i \in DOMAIN segs |->
                    FindSuspicious(report.freqs, report.rows[i], segs[i])]]
    /\ UNCHANGED <<scoreVars, buildVars, report, cerInput, cerResult,
                   resultsFile, eval, runnerCalls>>

NextValidate ==
    NextData \/ LoadWordFreqStep \/ ScanTranscriptions \/ FindSuspiciousStep

SpecValidate == InitValidate /\ [][NextValidate]_vars

(***************************************************************************)
(* analyze_results.py: normalize_text and char_error_rate.  A text is a    *)
(* sequence of characters: "a" and "A" (one letter in its two cases),      *)
(* "sp" (a space) and "comma" (a character of the punctuation class).      *)
(***************************************************************************)
MaxCerLen == 3

CerChars == {"a", "A", "sp", "comma"}

CerTexts == UNION {[1..n -> CerChars] : n \in 0..MaxCerLen}

\* text.lower()
Lower(text) == [i \in DOMAIN text |-> IF text[i] = "A" THEN "a" ELSE text[i]]

IsSpace(c) == c = "sp"

\* A character of the class of the second re.sub.
IsPunctuation(c) == c = "comma"

\* text.strip()
RECURSIVE Strip(_)
Strip(text) ==
    IF text # <<>> /\ IsSpace(text[1]) THEN Strip(Tail(text))
    ELSE IF text # <<>> /\ IsSpace(text[Len(text)])
         THEN Strip(SubSeq(text, 1, Len(text) - 1))
         ELSE text

\* re.sub(r"\s+", " ", text): every run of whitespace becomes one space.
CollapseSpaces(text) ==
    SelectSeq([i \in DOMAIN text |->
                 IF IsSpace(text[i]) /\ i > 1 /\ IsSpace(text[i - 1])
                 THEN "drop" ELSE text[i]],
              LAMBDA c : c # "drop")

\* re.sub(r"[...]+", "", text): the punctuation is removed.
RemovePunctuation(text) == SelectSeq(text, LAMBDA c : ~IsPunctuation(c))

\* normalize_text: lower and strip, then the whitespace, then the punctuation.
NormalizeText(text) == RemovePunctuation(CollapseSpaces(Strip(Lower(text))))

\* The inner loop of the Wagner-Fischer table: row i up to column j, from
\* row i - 1.  A row is a sequence whose (j + 1)-th member is dp[i][j].
RECURSIVE DpRow(_, _, _, _, _)
DpRow(prev, ref_chars, hyp_chars, i, j) ==
    IF j = 0 THEN <<i>>
    ELSE LET row == DpRow(prev, ref_chars, hyp_chars, i, j - 1)
             cost == IF ref_chars[i] = hyp_chars[j] THEN 0 ELSE 1
         IN  Append(row, Min(Min(prev[j + 1] + 1, row[j] + 1), prev[j] + cost))

\* The outer loop: row i of the table.
RECURSIVE DpRows(_, _, _)
DpRows(ref_chars, hyp_chars, i) ==
    IF i = 0 THEN [j \in 1..(Len(hyp_chars) + 1) |-> j - 1]
    ELSE DpRow(DpRows(ref_chars, hyp_chars, i - 1), ref_chars, hyp_chars, i,
               Len(hyp_chars))

\* dp[m][n]
EditDistance(ref_chars, hyp_chars) ==
    DpRows(ref_chars, hyp_chars, Len(ref_chars))[Len(hyp_chars) + 1]

\* char_error_rate(ref, hyp): the rate is the fraction num / den.
CharErrorRate(ref, hyp) ==
    LET ref_chars == NormalizeText(ref)
        hyp_chars == NormalizeText(hyp)
    IN  [state |-> "returned", ref_chars |-> ref_chars, hyp_chars |-> hyp_chars,
         rate |-> IF ref_chars = <<>>
                  THEN [num |-> IF hyp_chars = <<>> THEN 0 ELSE 1, den |-> 1]
                  ELSE [num |-> EditDistance(ref_chars, hyp_chars),
                        den |-> Len(ref_chars)]]

\* One call of char_error_rate, on every pair of texts.
InitCer ==
    /\ \E r \in CerTexts : \E h \in CerTexts :
          cerInput = [ref |-> r, hyp |-> h, given |-> TRUE]
    /\ cerResult = NoCerResult
    /\ report = NoReport /\ detector = NoDetector
    /\ EvalOff
    /\ test = NoTest /\ outcome = NoOutcome
    /\ mainIdx = 0 /\ mainLog = <<>> /\ mainState = "off"
    /\ TableOff
    /\ BuildOff

CallCharErrorRate ==
    /\ cerInput.given
    /\ cerResult.state = "idle"
    /\ cerResult' = CharErrorRate(cerInput.ref, cerInput.hyp)
    /\ UNCHANGED <<scoreVars, buildVars, report, detector, cerInput,
                   resultsFile, eval, runnerCalls>>

NextCer == CallCharErrorRate

SpecCer == InitCer /\ [][NextCer]_vars

(***************************************************************************)
(* run_eval.py.  A result is [audio, model, transcription]; its timings    *)
(* are left out.  The results file is the list of results it holds.        *)
(***************************************************************************)
MaxCases == 2

MaxModels == 2

MaxExisting == 2

\* Path(tc["audio_path"]).name of the test cases tried.
AudioNames == {"a.wav", "b.wav"}

\* Two of the keys of RUNNER_MAP.
KnownModels == {"sensevoice", "firered-v1"}

\* --models: lists of known models, or one unknown name.
ModelLists ==
    UNION {[1..n -> KnownModels] : n \in 1..MaxModels} \cup {<<"nope">>}

TestSets == UNION {[1..n -> AudioNames] : n \in 0..MaxCases}

\* The results an earlier run may have left in the file.
EarlierResults ==
    {[audio |-> "a.wav", model |-> "sensevoice", transcription |-> "old"],
     [audio |-> "b.wav", model |-> "sensevoice", transcription |-> "old"],
     [audio |-> "a.wav", model |-> "firered-v1", transcription |-> "[ERROR]"]}

ResultsFiles ==
    {NoFile} \cup
    {[exists |-> TRUE, content |-> c] :
        c \in UNION {[1..n -> EarlierResults] : n \in 0..MaxExisting}}

\* main() is started: the arguments and the files as it finds them.
InitEval ==
    /\ resultsFile \in ResultsFiles
    /\ \E tcs \in TestSets : \E ms \in ModelLists :
          eval = [NoEval EXCEPT !.state = "start", !.test_cases = tcs,
                                !.models_to_run = ms]
    /\ runnerCalls = <<>>
    /\ report = NoReport /\ detector = NoDetector
    /\ cerInput = NoCerInput /\ cerResult = NoCerResult
    /\ test = NoTest /\ outcome = NoOutcome
    /\ mainIdx = 0 /\ mainLog = <<>> /\ mainState = "off"
    /\ TableOff
    /\ BuildOff

\* done_set = {(r["audio"], r["model"]) for r in existing_results}
DoneSet(results) == {<<results[i].audio, results[i].model>> : i \in DOMAIN results}

PendingAll(test_cases, model_name, done_set) == test_cases

\* pending = [tc for tc in test_cases if (name, model_name) not in done_set]
Pending(test_cases, model_name, done_set) ==
    SelectSeq(test_cases, LAMBDA name : <<name, model_name>> \notin done_set)

\* main() up to its loop: an unknown model ends it (sys.exit(1)); the
\* existing results are loaded when the file is there.
EvalSetup ==
    /\ eval.state = "start"
    /\ eval' =
         IF \E i \in DOMAIN eval.models_to_run :
               eval.models_to_run[i] \notin KnownModels
         THEN [eval EXCEPT !.state = "exited"]
         ELSE LET existing_results ==
                      IF resultsFile.exists THEN resultsFile.content ELSE <<>>
              IN  [eval EXCEPT !.state = "loop", !.idx = 1,
                               !.existing_results = existing_results,
                               !.done_set = DoneSet(existing_results),
                               !.all_results = existing_results]
    /\ UNCHANGED <<scoreVars, buildVars, report, detector, cerInput, cerResult,
                   resultsFile, runnerCalls>>

\* The head of the loop over models_to_run: after the last model main()
\* ends; a model with nothing pending is skipped; otherwise its runner is
\* called with the pending cases.
EvalNextModel ==
    /\ eval.state = "loop"
    /\ IF eval.idx > Len(eval.models_to_run)
       THEN /\ eval' = [eval EXCEPT !.state = "finished"]
            /\ UNCHANGED runnerCalls
       ELSE LET model_name == eval.models_to_run[eval.idx]
                pending == Pending(eval.test_cases, model_name, eval.done_set)
            IN  IF pending = <<>>
                THEN /\ eval' = [eval EXCEPT !.idx = eval.idx + 1]
                     /\ UNCHANGED runnerCalls
                ELSE /\ eval' = [eval EXCEPT !.state = "in_runner",
                                             !.pending = pending]
                     /\ runnerCalls' =
                           Append(runnerCalls,
                                  [model |-> model_name, pending |-> pending,
                                   returned |-> FALSE, failing |-> {},
                                   results |-> <<>>])
    /\ UNCHANGED <<scoreVars, buildVars, report, detector, cerInput, cerResult,
                   resultsFile>>

\* try: text = <the recognizer's text>
\* except Exception as e: text = f"[ERROR] {e}"
Transcription(raises) == IF raises THEN "[ERROR]" ELSE "text"

RECURSIVE RunnerLoopUntilError(_, _, _, _)
RunnerLoopUntilError(model_name, test_cases, failing, n) ==
    IF n = 0 THEN <<>>
    ELSE IF \E i \in 1..n : i \in failing
         THEN RunnerLoopUntilError(model_name, test_cases, failing, n - 1)
         ELSE Append(RunnerLoopUntilError(model_name, test_cases, failing, n - 1),
                     [audio |-> test_cases[n], model |-> model_name,
                      transcription |-> Transcription(FALSE)])

RECURSIVE RunnerLoop(_, _, _, _)
\* The loop of a runner over the first n of its cases, the recognition of
\* the cases at the positions in failing raising: results.append({...}).
RunnerLoop(model_name, test_cases, failing, n) ==
    IF n = 0 THEN <<>>
    ELSE Append(RunnerLoop(model_name, test_cases, failing, n - 1),
                [audio |-> test_cases[n], model |-> model_name,
                 transcription |-> Transcription(n \in failing)])

FileKept(file, all_results) == file

\* with open(args.output, "w") as f: json.dump(all_results, f, ...)
FileSaved(file, all_results) == [exists |-> TRUE, content |-> all_results]

\* The runner returns: all_results.extend(results), and the file is saved.
RunnerReturns ==
    /\ eval.state = "in_runner"
    /\ \E failing \in SUBSET (DOMAIN eval.pending) :
       LET results == RunnerLoop(eval.models_to_run[eval.idx], eval.pending,
                                 failing, Len(eval.pending))
       IN
         /\ eval' = [eval EXCEPT !.state = "loop", !.idx = eval.idx + 1,
                                 !.pending = <<>>,
                                 !.all_results = eval.all_results \o results]
         /\ resultsFile' = FileSaved(resultsFile, eval.all_results \o results)
         /\ runnerCalls' =
               [runnerCalls EXCEPT ![Len(runnerCalls)] =
                   [@ EXCEPT !.returned = TRUE, !.failing = failing,
                             !.results = results]]
    /\ UNCHANGED <<scoreVars, buildVars, report, detector, cerInput, cerResult>>

\* The runner raises before it returns (its import, its model fail to
\* load): nothing catches it, main() ends.
RunnerRaises ==
    /\ eval.state = "in_runner"
    /\ eval' = [eval EXCEPT !.state = "raised"]
    /\ UNCHANGED <<scoreVars, buildVars, report, detector, cerInput, cerResult,
                   resultsFile, runnerCalls>>

NextEval == EvalSetup \/ EvalNextModel \/ RunnerReturns \/ RunnerRaises

SpecEval == InitEval /\ [][NextEval]_vars

(***************************************************************************)
(* Properties of test_bert_scoring.py                                      *)
(***************************************************************************)
ZipLen == Min(Len(test.original), Len(test.candidate))

DifferingPositions == {i \in 1..ZipLen : test.original[i] # test.candidate[i]}

\* C1: the verdict run_test prints is "accept" exactly when the score is
\* strictly greater than the threshold of the pair's class: 2.0 (20 tenths)
\* for a default pair, 2.5 (25 tenths) for a pair with a nasal position; a
\* score equal to the threshold is rejected.
C1_VerdictIffAboveThreshold ==
    outcome.state = "returned" =>
        LET nasal == \E i \in 1..ZipLen :
                        <<test.original[i], test.candidate[i]>> \in NasalPairs
            limit == IF nasal THEN 25 ELSE 20
        IN  /\ outcome.threshold = limit
            /\ outcome.score > limit => outcome.verdict = "accept"
            /\ outcome.score <= limit => outcome.verdict = "reject"

\* A nasal pair scored exactly 2.5, and rejected.
C1_Witness ==
    /\ outcome.state = "returned"
    /\ test.original = <<"yin">> /\ test.candidate = <<"ying">>
    /\ outcome.score = 25
    /\ outcome.verdict = "reject"

\* C2: for every text, offset and word, an identity substitution (original
\* equal to candidate) makes run_test return with score 0 and verdict
\* "reject", whichever class is_nasal_pair gives the pair.
C2_IdentityScoresZeroAndRejects ==
    (outcome.state # "idle" /\ test.original = test.candidate) =>
        /\ outcome.state = "returned"
        /\ outcome.score = 0
        /\ outcome.verdict = "reject"

\* An identity substitution of class nasal ("mu" is paired with itself in
\* nasal_pairs), at an offset past the end of the text.
C2_Witness ==
    /\ outcome.state = "returned"
    /\ test.original = <<"yin", "mu">> /\ test.candidate = test.original
    /\ test.offset >= test.textLen
    /\ outcome.threshold = 25
    /\ outcome.verdict = "reject"

\* C3: an oracle failure while a candidate is scored is never propagated as
\* a hard failure: the pass (main's run_test calls) goes on to the remaining
\* candidates.
C3_OracleFailureDoesNotAbortPass ==
    (mainState # "off" /\ outcome.state = "raised") =>
        mainState \in {"running", "finished"}

\* The sum of the per-position deltas over the differing positions among the
\* first n zipped positions, read from the oracle's answers.
DeltaSum[n \in Nat] ==
    IF n = 0 THEN 0
    ELSE DeltaSum[n - 1] +
         (IF n \in DifferingPositions
          THEN test.oracle[test.offset + n].logits[test.candidate[n]]
               - test.oracle[test.offset + n].logits[test.original[n]]
          ELSE 0)

\* C10: when score_word_replacement returns, its result is the sum of the
\* deltas logit(candidate[i]) - logit(original[i]) at text position
\* word_offset + i over exactly the differing positions i, and the oracle was
\* invoked once for each differing position, in order, and for no other.
C10_SumOverDifferingPositions ==
    outcome.state = "returned" =>
        /\ outcome.score = DeltaSum[ZipLen]
        /\ Len(outcome.calls) = Cardinality(DifferingPositions)
        /\ \A i \in DifferingPositions :
             Cardinality({k \in 1..Len(outcome.calls) :
                 outcome.calls[k] =
                     [position |-> test.offset + i - 1,
                      original_char |-> test.original[i],
                      candidate_char |-> test.candidate[i]]}) = 1
        /\ \A k \in 1..Len(outcome.calls) :
             outcome.calls[k].original_char # outcome.calls[k].candidate_char

\* Two differing positions, each invoked once, deltas 2.0 and 2.5 summed.
C10_Witness ==
    /\ outcome.state = "returned"
    /\ Len(outcome.calls) = 2
    /\ test.oracle[test.offset + 1].logits[test.candidate[1]] = 20
    /\ test.oracle[test.offset + 2].logits[test.candidate[2]] = 25
    /\ outcome.score = 45

\* The run_test calls of main(), each with every oracle tried for it: the
\* second evaluations a call is compared with.
MainCalls ==
    UNION {{[textLen |-> MainCases[k].textLen, offset |-> MainCases[k].offset,
             original |-> MainCases[k].original,
             candidate |-> MainCases[k].candidate, oracle |-> orc] :
               orc \in OraclesFor(MainCases[k].textLen, MainCases[k].offset,
                                  MainCases[k].original,
                                  MainCases[k].candidate)} :
           k \in 1..Len(MainCases)}

\* The returned evaluations of MainCalls: [nasal, score, verdict].
MainEvaluations ==
    {[nasal |-> IsNasalPair(t.original, t.candidate),
      score |-> RunTestResult(t).score,
      verdict |-> RunTestResult(t).verdict] :
        t \in {u \in MainCalls : RunTestResult(u).state = "returned"}}

\* C11: the verdict run_test prints depends on the contextual score and the
\* confusion class only: a call of run_test and any call main() makes, on
\* whatever text, offset and words (run_test is given no word frequency and
\* no frequency-ratio score), print the same verdict when they have the same
\* score and the same class.
C11_VerdictDependsOnScoreAndClassOnly ==
    outcome.state = "returned" =>
        \A e \in MainEvaluations :
            (/\ e.score = outcome.score
             /\ e.nasal = IsNasalPair(test.original, test.candidate))
            => e.verdict = outcome.verdict

\* A two-character nasal pair scored 2.6 and accepted, as main()'s first
\* call is when its oracle answers 2.6.
C11_Witness ==
    /\ outcome.state = "returned"
    /\ test.original = <<"yin", "yin">> /\ test.candidate = <<"ying", "yin">>
    /\ outcome.score = 26
    /\ outcome.verdict = "accept"
    /\ [nasal |-> TRUE, score |-> 26, verdict |-> "accept"] \in MainEvaluations

\* C12: for one raw score the nasal class is the stricter one: a nasal pair
\* is accepted only for a score above 2.5, where a default pair is accepted
\* too, and a score s with 2.0 < s <= 2.5 is accepted for a default pair and
\* rejected for a nasal pair.
C12_ThresholdAsymmetry ==
    outcome.state = "returned" =>
        LET nasal == IsNasalPair(test.original, test.candidate)
        IN  /\ (nasal /\ outcome.verdict = "accept") => outcome.score > 25
            /\ (~nasal /\ outcome.score > 25) => outcome.verdict = "accept"
            /\ (outcome.score > 20 /\ outcome.score <= 25) =>
                   outcome.verdict = IF nasal THEN "reject" ELSE "accept"

\* A default pair scored exactly 2.5, and accepted.
C12_Witness ==
    /\ outcome.state = "returned"
    /\ test.original = <<"yin">> /\ test.candidate = <<"mu">>
    /\ outcome.score = 25
    /\ outcome.verdict = "accept"

\* C24: the class of a call of run_test depends on the positions where the
\* two words differ only: a nasal pair has a differing position whose pair
\* of characters is in nasal_pairs, and putting another character at a
\* position where both words hold the same one leaves the threshold as it is.
C24_ClassDependsOnDifferingPositionsOnly ==
    outcome.state = "returned" =>
        LET shared == {i \in 1..Min(Len(test.original), Len(test.candidate)) :
                          test.original[i] = test.candidate[i]}
        IN  /\ IsNasalPair(test.original, test.candidate) =>
                  \E i \in 1..Min(Len(test.original), Len(test.candidate)) :
                      /\ i \notin shared
                      /\ <<test.original[i], test.candidate[i]>> \in NasalPairs
            /\ \A i \in shared : \A x \in ScoreChars :
                  Threshold([test.original EXCEPT ![i] = x],
                            [test.candidate EXCEPT ![i] = x])
                    = outcome.threshold

\* C25: the contextual verdict of a printed row of the comparison table is
\* the decision run_test reports for the same text, offset, words and
\* score: "fix" exactly when run_test accepts.
C25_TableVerdictIsRunTestVerdict ==
    tableRow.state = "printed" =>
        /\ RunTestResult(test).state = "returned"
        /\ RunTestResult(test).score = tableRow.bert_score
        /\ (tableRow.bert_verdict = "fix")
              <=> (RunTestResult(test).verdict = "accept")

\* C13, as stated: the frequency-ratio score of a printed row is positive for
\* every candidate strictly more frequent than the original, and not positive
\* for any candidate at most as frequent as the original.
C13_PositiveIffMoreCommon ==
    tableRow.state = "printed" =>
        /\ freqs.cand_freq > freqs.orig_freq => Positive(tableRow.freq_score)
        /\ freqs.cand_freq <= freqs.orig_freq => ~Positive(tableRow.freq_score)

\* C13, amended: the frequency-ratio score of a printed row is positive
\* exactly when the candidate's frequency exceeds the original's by more
\* than one; it is zero for a candidate one more frequent than the original
\* and negative for every candidate at most as frequent as the original.
C13_PositiveIffAboveSmoothedOriginal ==
    tableRow.state = "printed" =>
        /\ Positive(tableRow.freq_score)
              <=> freqs.cand_freq > freqs.orig_freq + 1
        /\ freqs.cand_freq = freqs.orig_freq + 1
              => tableRow.freq_score.num = tableRow.freq_score.den
        /\ freqs.cand_freq <= freqs.orig_freq
              => tableRow.freq_score.num < tableRow.freq_score.den

\* A row whose candidate is one more frequent than its original: the score
\* is ln(3) - ln(2 + 1) = 0, not positive.
C13_Witness ==
    /\ tableRow.state = "printed"
    /\ freqs.orig_freq = 2 /\ freqs.cand_freq = 3
    /\ ~Positive(tableRow.freq_score)

(***************************************************************************)
(* Properties of prepare_pinyin_data.py                                    *)
(***************************************************************************)
PinyinCharsReturned == buildState \in {"word_freq", "bigram_freq", "validate", "done"}

WordFreqReturned == buildState \in {"bigram_freq", "validate", "done"}

BigramFreqReturned == buildState \in {"validate", "done"}

\* C4: when the corpus cannot be obtained (download_jieba_dict raises), the
\* run has written none of the four output files.
C4_FailedBuildWritesNothing ==
    buildState = "failed" => written = {}

\* A reading without its trailing digits: its longest prefix that does not
\* end in a digit.
TonelessForm(s) ==
    LET ends == {m \in 0..Len(s) : m = 0 \/ s[m] \notin Digits}
        last == CHOOSE m \in ends : \A x \in ends : x <= m
    IN  SubSeq(s, 1, last)

\* C5: after generate_pinyin_chars, every character c that is a key of
\* char_pinyin is a member of pinyin_chars[strip_tone(s)] for every reading s
\* of c.
C5_IndexConsistency ==
    PinyinCharsReturned =>
        \A i \in DOMAIN char_pinyin :
            \A j \in DOMAIN char_pinyin[i].v :
                LET key == TonelessForm(char_pinyin[i].v[j])
                IN  /\ DictHas(pinyin_chars, key)
                    /\ char_pinyin[i].k \in SeqRange(DictGet(pinyin_chars, key))

\* A heteronym in two groups, one of them shared with another character.
C5_Witness ==
    /\ PinyinCharsReturned
    /\ DictHas(pinyin_chars, <<"cheng">>)
    /\ DictGet(pinyin_chars, <<"cheng">>) = <<"shi", "cheng">>
    /\ DictHas(pinyin_chars, <<"sheng">>)
    /\ DictGet(pinyin_chars, <<"sheng">>) = <<"cheng">>

\* C6: after generate_word_freq, every character that is a key of
\* char_pinyin has a word_freq entry of at least 1, whatever the corpus holds.
C6_SingleCharacterFloor ==
    WordFreqReturned =>
        \A i \in DOMAIN char_pinyin :
            /\ DictHas(word_freq, <<char_pinyin[i].k>>)
            /\ DictGet(word_freq, <<char_pinyin[i].k>>) >= 1

\* The corpus-derived frequency of a word: the sum of the frequencies of the
\* well-formed lines of the corpus file read that convert to it.
CorpusTotal(w) ==
    LET lines == cache.content
        total[n \in Nat] ==
            IF n = 0 THEN 0
            ELSE total[n - 1] +
                 (IF lines[n].fields >= 2 /\ lines[n].numeric
                     /\ Convert(lines[n].word) = w
                  THEN lines[n].freq ELSE 0)
    IN  total[Len(lines)]

CorpusWordsRead ==
    {Convert(cache.content[n].word) :
        n \in {m \in DOMAIN cache.content :
                 cache.content[m].fields >= 2 /\ cache.content[m].numeric}}

\* The sum, over every entry of word_freq and every position at which the
\* bigram occurs in its word, of the entry's frequency.
BigramTotal(b) ==
    LET total[n \in Nat] ==
            IF n = 0 THEN 0
            ELSE total[n - 1] +
                 word_freq[n].v *
                 Cardinality({j \in 1..(Len(word_freq[n].k) - 1) :
                     <<word_freq[n].k[j], word_freq[n].k[j + 1]>> = b})
    IN  total[Len(word_freq)]

BigramOccurs(b) ==
    \E n \in DOMAIN word_freq : \E j \in 1..(Len(word_freq[n].k) - 1) :
        <<word_freq[n].k[j], word_freq[n].k[j + 1]>> = b

BuildChars == SeqRange(CodePointOrder)

AllBigrams == BuildChars \X BuildChars

\* C7: boosting never lowers a count.  A boosted word ends at
\* max(corpus-derived frequency, boost value), a corpus word that is not
\* boosted keeps its corpus-derived frequency; a boosted bigram ends at
\* max(summed frequency, boost value), a bigram of the store that is not
\* boosted keeps its summed frequency.
C7_BoostIsMax ==
    /\ WordFreqReturned =>
        /\ \A i \in DOMAIN TaiwanExtraWords :
             /\ DictHas(word_freq, TaiwanExtraWords[i].k)
             /\ DictGet(word_freq, TaiwanExtraWords[i].k) =
                    Max(CorpusTotal(TaiwanExtraWords[i].k), TaiwanExtraWords[i].v)
        /\ \A w \in CorpusWordsRead \ DictKeys(TaiwanExtraWords) :
             /\ DictHas(word_freq, w)
             /\ DictGet(word_freq, w) = CorpusTotal(w)
    /\ BigramFreqReturned =>
        /\ \A i \in DOMAIN TaiwanExtraBigrams :
             /\ DictHas(bigram_freq, TaiwanExtraBigrams[i].k)
             /\ DictGet(bigram_freq, TaiwanExtraBigrams[i].k) =
                    Max(BigramTotal(TaiwanExtraBigrams[i].k), TaiwanExtraBigrams[i].v)
        /\ \A b \in DictKeys(bigram_freq) \ DictKeys(TaiwanExtraBigrams) :
             DictGet(bigram_freq, b) = BigramTotal(b)

\* The corpus lists a boosted word above its boost value, and a word that is
\* not boosted.
C7_Witness ==
    /\ BigramFreqReturned
    /\ CorpusTotal(<<"cheng", "shi">>) = 90000
    /\ DictGet(word_freq, <<"cheng", "shi">>) = 90000
    /\ DictHas(word_freq, <<"ma", "ma">>)
    /\ DictGet(word_freq, <<"ma", "ma">>) = 90000
    /\ DictHas(bigram_freq, <<"ma", "ma">>)

\* C8: before boosting and pruning, the frequency generate_bigram_freq has
\* for a bigram is the sum, over every word of word_freq and every position
\* at which the bigram occurs in it, of the word's frequency; a bigram that
\* occurs in no word has no count.
C8_BigramCountsAreWindowSums ==
    BigramFreqReturned =>
        LET counts == BigramCounts(word_freq, Len(word_freq))
        IN  \A b \in AllBigrams :
                /\ DictHas(counts, b) <=> BigramOccurs(b)
                /\ DictGetOr(counts, b, 0) = BigramTotal(b)

\* A word that holds a bigram twice and another that holds it once.
C8_Witness ==
    /\ BigramFreqReturned
    /\ DictHas(word_freq, <<"ma", "ma", "ma">>)
    /\ DictGet(word_freq, <<"ma", "ma", "ma">>) = 25
    /\ DictHas(word_freq, <<"ma", "ma">>)
    /\ DictGet(word_freq, <<"ma", "ma">>) = 25
    /\ DictGet(BigramCounts(word_freq, Len(word_freq)), <<"ma", "ma">>) = 75

\* C9: every entry of the bigram store returned and written has a key of two
\* characters and a frequency above 50; a bigram whose boosted total is at
\* most 50 is absent, one whose boosted total is above 50 is present with it.
C9_BigramStoreIsPruned ==
    BigramFreqReturned =>
        LET totals == BoostedBigrams(word_freq)
        IN  /\ \A i \in DOMAIN bigram_freq :
                 Len(bigram_freq[i].k) = 2 /\ bigram_freq[i].v > 50
            /\ files.bigram_freq.exists
            /\ SeqRange(files.bigram_freq.content) = SeqRange(bigram_freq)
            /\ Len(files.bigram_freq.content) = Len(bigram_freq)
            /\ \A i \in DOMAIN totals :
                 IF totals[i].v <= 50
                 THEN ~DictHas(bigram_freq, totals[i].k)
                 ELSE /\ DictHas(bigram_freq, totals[i].k)
                      /\ DictGet(bigram_freq, totals[i].k) = totals[i].v

\* A bigram with a total of exactly 50, pruned.
C9_Witness ==
    /\ BigramFreqReturned
    /\ DictHas(BoostedBigrams(word_freq), <<"ma", "ma">>)
    /\ DictGet(BoostedBigrams(word_freq), <<"ma", "ma">>) = 50
    /\ ~DictHas(bigram_freq, <<"ma", "ma">>)
    /\ Len(bigram_freq) = 2

\* The lines of word_freq.tsv, and the (word, frequency) a line holds.
WordFreqFileLines == ReadLines(files.word_freq.content)

FileEntry(line) ==
    LET parts == SplitTab(RStripNewline(line))
    IN  [k |-> parts[1], v |-> ParseInt(parts[2]).value]

\* Every line of word_freq.tsv is word, Tab, integer, Newline; every word of
\* word_freq is on exactly one line and no other word is on a line; the
\* frequencies do not increase from one line to the next.
OneLinePerWordInFrequencyOrder ==
    LET lines == WordFreqFileLines
    IN  /\ \A i \in DOMAIN lines :
             /\ lines[i][Len(lines[i])] = Newline
             /\ Len(SplitTab(RStripNewline(lines[i]))) = 2
             /\ ~ParseInt(SplitTab(RStripNewline(lines[i]))[2]).raised
             /\ FileEntry(lines[i]).k \in DictKeys(word_freq)
        /\ \A w \in DictKeys(word_freq) :
             Cardinality({i \in DOMAIN lines : FileEntry(lines[i]).k = w}) = 1
        /\ \A i \in 1..(Len(lines) - 1) :
             FileEntry(lines[i]).v >= FileEntry(lines[i + 1]).v

\* The frequency on the line of word_freq.tsv that holds w.
FileFrequency(w) ==
    LET lines == WordFreqFileLines
    IN  FileEntry(lines[CHOOSE i \in DOMAIN lines :
                          FileEntry(lines[i]).k = w]).v

\* C15, as stated: word_freq.tsv holds every word on exactly one line, in
\* non-increasing order of frequency, and the line of a word the corpus
\* lists holds the sum of the frequencies of the corpus lines that convert
\* to it.
C15_OneLinePerWordWithSummedFrequency ==
    WordFreqReturned =>
        /\ OneLinePerWordInFrequencyOrder
        /\ \A w \in CorpusWordsRead : FileFrequency(w) = CorpusTotal(w)

\* C15, amended: word_freq.tsv holds every word on exactly one line, in
\* non-increasing order of frequency; the line of a word the corpus lists
\* holds the sum of the frequencies of the corpus lines that convert to it,
\* or the word's boost value when the word is in the boost table and the
\* sum is below it.
C15_OneLinePerWordSummedThenBoosted ==
    WordFreqReturned =>
        /\ OneLinePerWordInFrequencyOrder
        /\ \A w \in CorpusWordsRead :
             FileFrequency(w) =
                IF DictHas(TaiwanExtraWords, w)
                THEN Max(CorpusTotal(w), DictGet(TaiwanExtraWords, w))
                ELSE CorpusTotal(w)

\* Two corpus lines, one simplified and one traditional, convert to one
\* word: the file holds it once, with the sum.
C15_Witness ==
    /\ WordFreqReturned
    /\ Len(cache.content) = 2
    /\ cache.content[1] = Line(<<"shi", "ma_s">>, 25)
    /\ cache.content[2] = Line(<<"shi", "ma">>, 3)
    /\ FileFrequency(<<"shi", "ma">>) = 28

\* C16: load_word_freq on the word_freq.tsv that generate_word_freq wrote
\* returns, without raising, a dict with exactly the keys of the word_freq
\* that was written and the same integer frequency for each: no entry is
\* lost, merged or altered.
C16_WordFreqRoundTrip ==
    report.state # "off" =>
        /\ report.state = "loaded"
        /\ Len(report.freqs) = Len(word_freq)
        /\ DictKeys(report.freqs) = DictKeys(word_freq)
        /\ \A w \in DictKeys(word_freq) :
             DictGet(report.freqs, w) = DictGet(word_freq, w)

\* A loaded map with a word of summed frequency 180000, a boosted word and
\* the single characters of frequency 1.
C16_Witness ==
    /\ report.state = "loaded"
    /\ DictHas(report.freqs, <<"ma", "ma">>)
    /\ DictGet(report.freqs, <<"ma", "ma">>) = 180000
    /\ DictGet(report.freqs, <<"cheng", "shi">>) = 80000
    /\ \E w \in DictKeys(report.freqs) : DictGet(report.freqs, w) = 1

OutputFiles == {"char_pinyin", "pinyin_chars", "word_freq", "bigram_freq"}

RowWord(i, span) == SpanWord(report.rows[i], span)

CjkSlices(text) ==
    {sl \in (1..Len(text)) \X (MinSubstringLen..MaxSubstringLen) :
        /\ sl[1] + sl[2] - 1 <= Len(text)
        /\ \A k \in sl[1]..(sl[1] + sl[2] - 1) : IsCjk(text[k])}

Slice(text, sl) == SubSeq(text, sl[1], sl[1] + sl[2] - 1)

\* The maximal runs <<first, last>> of CJK characters of a text.
MaximalRuns(text) ==
    {r \in (1..Len(text)) \X (1..Len(text)) :
        /\ r[1] <= r[2]
        /\ \A k \in r[1]..r[2] : IsCjk(text[k])
        /\ r[1] = 1 \/ ~IsCjk(text[r[1] - 1])
        /\ r[2] = Len(text) \/ ~IsCjk(text[r[2] + 1])}

SliceInRun(sl, r) == r[1] <= sl[1] /\ sl[1] + sl[2] - 1 <= r[2]

RunEntries(n) == Max(0, n - 1) + Max(0, n - 2) + Max(0, n - 3)

ExtractedExactly(text) ==
    LET subs == ExtractCjkSubstrings(text)
    IN  /\ \A j \in DOMAIN subs :
              \E sl \in CjkSlices(text) : subs[j] = Slice(text, sl)
        /\ \A sl \in CjkSlices(text) :
              Cardinality({j \in DOMAIN subs : subs[j] = Slice(text, sl)})
                = Cardinality({t \in CjkSlices(text) :
                                 Slice(text, t) = Slice(text, sl)})
        /\ Len(subs) = Cardinality(CjkSlices(text))
        /\ \A sl \in CjkSlices(text) :
              \E r \in MaximalRuns(text) : SliceInRun(sl, r)
        /\ \A r \in MaximalRuns(text) :
              Cardinality({sl \in CjkSlices(text) : SliceInRun(sl, r)})
                = RunEntries(r[2] - r[1] + 1)

\* C22: extract_cjk_substrings returns the 2, 3 and 4 character slices of
\* the maximal CJK runs of the text, one entry per run, start and length:
\* every entry is such a slice, every slice is returned as often as it
\* occurs, and a run of n characters gives max(0, n-1) + max(0, n-2) +
\* max(0, n-3) entries.
C22_SubstringsOfCjkRuns ==
    report.state \in {"reported", "nothing_found"} =>
        \A i \in DOMAIN report.rows : ExtractedExactly(report.rows[i])

\* The transcript "shi ma ma ma", one run of four characters: six entries.
C22_Witness ==
    /\ report.state \in {"reported", "nothing_found"}
    /\ Len(report.rows) >= 1
    /\ report.rows[1] = <<"shi", "ma", "ma", "ma">>
    /\ ExtractCjkSubstrings(report.rows[1]) =
         << <<"shi", "ma">>, <<"ma", "ma">>, <<"ma", "ma">>,
            <<"shi", "ma", "ma">>, <<"ma", "ma", "ma">>,
            <<"shi", "ma", "ma", "ma">> >>

\* The places <<row, start>> where a word stands in the transcripts.
Occurrences(rows, word) ==
    {o \in (DOMAIN rows) \X (1..MaxTranscriptLen) :
        /\ o[2] + Len(word) - 1 <= Len(rows[o[1]])
        /\ SubSeq(rows[o[1]], o[2], o[2] + Len(word) - 1) = word}

\* C23: a word the report lists has two characters or more and a frequency
\* of 1 to 5 in the store, stands in a transcript as a slice of 2 to 4
\* characters of a CJK run, and is listed once, with the number of places
\* where it stands in the transcripts; so a word that the store lacks, or
\* holds at frequency 0 or above 5, is not listed.
C23_ReportedWordsAreLowFrequencyAndCounted ==
    report.state = "reported" =>
        \A n \in DOMAIN report.found_in_transcriptions :
            LET word == report.found_in_transcriptions[n].k
                count == report.found_in_transcriptions[n].v
            IN  /\ Len(word) >= 2
                /\ DictHas(report.freqs, word)
                /\ DictGet(report.freqs, word) \in 1..5
                /\ \E i \in DOMAIN report.rows :
                     \E sl \in CjkSlices(report.rows[i]) :
                         Slice(report.rows[i], sl) = word
                /\ count = Cardinality(Occurrences(report.rows, word))
                /\ \A o \in DOMAIN report.found_in_transcriptions :
                     report.found_in_transcriptions[o].k = word => o = n

\* The store holds "ma ma" at 3 and "shi ma" at 90000; the transcripts are
\* "shi ma ma ma" and "shi ma": "ma ma" is listed with 2, "shi ma" is not.
C23_Witness ==
    /\ report.state = "reported"
    /\ report.rows = << <<"shi", "ma", "ma", "ma">>, <<"shi", "ma">> >>
    /\ DictHas(report.freqs, <<"shi", "ma">>)
    /\ DictGet(report.freqs, <<"shi", "ma">>) = 90000
    /\ report.found_in_transcriptions = << [k |-> <<"ma", "ma">>, v |-> 2] >>

(***************************************************************************)
(* Properties of analyze_results.py                                        *)
(***************************************************************************)
\* A text with its punctuation removed and its letters lowered, every other
\* character left where it is.
CaseAndPunctuationFree(text) == Lower(RemovePunctuation(text))

\* C18: char_error_rate(ref, hyp) is 0 whenever hyp differs from ref only in
\* the case of letters and in punctuation characters inserted or deleted,
\* wherever they stand, next to whitespace included.
C18_CaseAndPunctuationDoNotCount ==
    (/\ cerResult.state = "returned"
     /\ CaseAndPunctuationFree(cerInput.ref)
          = CaseAndPunctuationFree(cerInput.hyp))
    => cerResult.rate.num = 0

(***************************************************************************)
(* Properties of the inverse index of prepare_pinyin_data.py               *)
(***************************************************************************)
\* The characters of char_pinyin with a reading whose toneless form is b.
CharsReadAs(b) ==
    {char_pinyin[i].k : i \in {j \in DOMAIN char_pinyin :
        \E r \in DOMAIN char_pinyin[j].v : StripTone(char_pinyin[j].v[r]) = b}}

\* C27: once generate_pinyin_chars has run, each key of pinyin_chars stands
\* once and is not empty, its group is not empty and lists, each once, the
\* characters with a reading of that toneless form and no other; and each
\* toneless form of a reading that is not empty is a key.
C27_InverseIndexExact ==
    buildState \in {"word_freq", "bigram_freq", "validate", "done"} =>
        /\ \A n \in DOMAIN pinyin_chars :
              LET b == pinyin_chars[n].k
                  group == pinyin_chars[n].v
              IN  /\ b # <<>>
                  /\ group # <<>>
                  /\ \A o \in DOMAIN pinyin_chars : pinyin_chars[o].k = b => o = n
                  /\ \A x, y \in DOMAIN group : group[x] = group[y] => x = y
                  /\ SeqRange(group) = CharsReadAs(b)
        /\ \A i \in DOMAIN char_pinyin : \A r \in DOMAIN char_pinyin[i].v :
              StripTone(char_pinyin[i].v[r]) # <<>> =>
                  DictHas(pinyin_chars, StripTone(char_pinyin[i].v[r]))

\* cheng is read cheng2 and cheng4, shi is read cheng2: the group of "cheng"
\* holds shi and cheng, each once.
C27_Witness ==
    /\ buildState = "word_freq"
    /\ pypinyin.cheng = <<Cheng2, <<"cheng", "4">>>>
    /\ pypinyin.shi = <<Cheng2>>
    /\ DictHas(pinyin_chars, <<"cheng">>)
    /\ DictGet(pinyin_chars, <<"cheng">>) = <<"shi", "cheng">>
    /\ ~DictHas(pinyin_chars, <<"shi">>)

(***************************************************************************)
(* Properties of the corpus cache of prepare_pinyin_data.py                *)
(***************************************************************************)
\* C26: a run that has built word_freq has built it from the complete
\* corpus: the cache file it read holds every line of the corpus at
\* JIEBA_DICT_URL, whatever downloads failed or broke off in earlier runs.
C26_CorpusBuiltFromCompleteCache ==
    buildState \in {"bigram_freq", "validate", "done"} =>
        /\ cache.exists
        /\ cache.content = upstream
        /\ word_freq = GenerateWordFreq(char_pinyin, upstream)

(***************************************************************************)
(* Properties of run_eval.py                                               *)
(***************************************************************************)
IsPrefix(p, q) == Len(p) <= Len(q) /\ SubSeq(q, 1, Len(p)) = p

\* The pairs (audio file name, model) of the results the file held when the
\* run started.
ExistingPairs == DoneSet(eval.existing_results)

\* C19: in a run, no (audio file name, model) pair of the existing results
\* file is passed to a runner, and every version of the file the run writes
\* starts with the pre-existing results, unchanged and in their order.
C19_AppendOnlyAndResumable ==
    eval.state \in {"loop", "in_runner", "finished", "raised"} =>
        /\ \A i \in DOMAIN runnerCalls : \A j \in DOMAIN runnerCalls[i].pending :
              <<runnerCalls[i].pending[j], runnerCalls[i].model>>
                  \notin ExistingPairs
        /\ resultsFile.exists =>
              IsPrefix(eval.existing_results, resultsFile.content)

\* A run over a.wav and b.wav with sensevoice and firered-v1, the file
\* holding sensevoice's result for b.wav and firered-v1's for a.wav: each
\* runner got the other case only, and the file was written twice.
C19_Witness ==
    /\ eval.state = "finished"
    /\ eval.test_cases = <<"a.wav", "b.wav">>
    /\ Len(eval.existing_results) = 2
    /\ Len(runnerCalls) = 2
    /\ runnerCalls[1].model = "sensevoice"
    /\ runnerCalls[1].pending = <<"a.wav">>
    /\ runnerCalls[2].model = "firered-v1"
    /\ runnerCalls[2].pending = <<"b.wav">>
    /\ resultsFile.exists
    /\ Len(resultsFile.content) = 4

RECURSIVE CompletedResults(_, _)
\* The results of the runners that returned among the first n calls, in the
\* order of the calls.
CompletedResults(calls, n) ==
    IF n = 0 THEN <<>>
    ELSE CompletedResults(calls, n - 1)
           \o (IF calls[n].returned THEN calls[n].results ELSE <<>>)

\* C20: once the runner of a model has returned, the file holds the
\* pre-existing results followed by the results of every model completed so
\* far, while the runner of the next model runs and after it raised as well.
C20_SavedAfterEachModel ==
    (\E i \in DOMAIN runnerCalls : runnerCalls[i].returned) =>
        /\ resultsFile.exists
        /\ resultsFile.content =
             eval.existing_results
               \o CompletedResults(runnerCalls, Len(runnerCalls))

\* The runner of the second model raised after the first one returned two
\* results, one of them an error: the file holds the old result and both.
C20_Witness ==
    /\ eval.state = "raised"
    /\ Len(runnerCalls) = 2
    /\ runnerCalls[1].returned
    /\ ~runnerCalls[2].returned
    /\ Len(runnerCalls[1].results) = 2
    /\ runnerCalls[1].results[2].transcription = "[ERROR]"
    /\ Len(eval.existing_results) = 1
    /\ resultsFile.exists
    /\ Len(resultsFile.content) = 3

\* C21: a runner that returns gives one result per case it was passed, in
\* the order of the cases; a case whose recognition raised has a
\* transcription starting with "[ERROR]", and the cases after it have their
\* results as well.
C21_OneResultPerCase ==
    \A i \in DOMAIN runnerCalls :
        LET call == runnerCalls[i]
        IN  call.returned =>
              /\ Len(call.results) = Len(call.pending)
              /\ \A j \in DOMAIN call.pending :
                    /\ call.results[j].audio = call.pending[j]
                    /\ call.results[j].model = call.model
                    /\ (j \in call.failing) <=>
                          (call.results[j].transcription = "[ERROR]")

\* A runner was passed a.wav and b.wav, the recognition of a.wav raised: the
\* first result is the error, the second is the text of b.wav.
C21_Witness ==
    /\ Len(runnerCalls) >= 1
    /\ runnerCalls[1].returned
    /\ runnerCalls[1].pending = <<"a.wav", "b.wav">>
    /\ runnerCalls[1].failing = {1}
    /\ runnerCalls[1].results[1].transcription = "[ERROR]"
    /\ runnerCalls[1].results[2] =
         [audio |-> "b.wav", model |-> runnerCalls[1].model,
          transcription |-> "text"]

NoDuplicates(q) == \A x, y \in DOMAIN q : q[x] = q[y] => x = y

\* No two results of a list have the same audio file name and model.
OneResultPerPair(results) ==
    \A x, y \in DOMAIN results :
        (/\ results[x].audio = results[y].audio
         /\ results[x].model = results[y].model) => x = y

\* C28: a run over a test set of distinct audio file names, started on a
\* results file with at most one result per (audio file name, model) pair or
\* on none, leaves at most one result per pair in every file it writes,
\* whatever the list of models, one that names a model twice included.
C28_OneResultPerPair ==
    (/\ eval.state \in {"loop", "in_runner", "finished", "raised"}
     /\ NoDuplicates(eval.test_cases)
     /\ OneResultPerPair(eval.existing_results)
     /\ resultsFile.exists)
    => OneResultPerPair(resultsFile.content)

====
